---------------------------- MODULE Spec2Model ----------------------------
(***************************************************************************)
(* GradCafe scrape-and-load pipeline: the page fetcher, the entry parser, *)
(* the pagination driver (module_2: discovered links, module_4: page      *)
(* numbers), the comment cleaner and the /pull-data insert loop.          *)
(*                                                                         *)
(* Text is modelled by TLA+ strings, character by character; a listing    *)
(* page is modelled by the row list BeautifulSoup hands to the parser.    *)
(***************************************************************************)
EXTENDS Integers, Sequences, FiniteSets, TLC

(***************************************************************************)
(* Characters and character classes (Python re: \s, \d, \w, [\d\.], .)     *)
(***************************************************************************)
Char(s, j) == SubSeq(s, j, j)

UpperChars == "ABCDEFGHIJKLMNOPQRSTUVWXYZ"

LowerChars == "abcdefghijklmnopqrstuvwxyz"

Digits == {"0", "1", "2", "3", "4", "5", "6", "7", "8", "9"}

Spaces == {" ", "\t", "\n", "\r"}

UpperSet == {Char(UpperChars, k) : k \in 1..26}

LowerSet == {Char(LowerChars, k) : k \in 1..26}

LowerTable ==
    [c \in UpperSet |-> Char(LowerChars, CHOOSE k \in 1..26 : Char(UpperChars, k) = c)]

IsUpper(c) == c \in UpperSet

IsLower(c) == c \in LowerSet

LowerChar(c) == IF c \in UpperSet THEN LowerTable[c] ELSE c

RECURSIVE LowerFrom(_, _)
LowerFrom(s, j) ==
    IF j > Len(s) THEN "" ELSE LowerChar(Char(s, j)) \o LowerFrom(s, j + 1)

\* str.lower(), used on short strings only (status words, literals)
Lower(s) == LowerFrom(s, 1)

InClass(cls, c) ==
    CASE cls = "s"   -> c \in Spaces
      [] cls = "S"   -> c \notin Spaces
      [] cls = "d"   -> c \in Digits
      [] cls = "dd"  -> c \in Digits \/ c = "."
      [] cls = "w"   -> c \in Digits \/ IsUpper(c) \/ IsLower(c) \/ c = "_"
      [] cls = "dot" -> c # "\n"
      [] cls = "seg" -> c # "/"

\* the least and the greatest element of a non-empty set of integers
MinOf(S) == CHOOSE m \in S : \A n \in S : m <= n

MaxOf(S) == 0 - MinOf({0 - n : n \in S})

\* the least element of S, d when S is empty
FirstOr(S, d) == IF S = {} THEN d ELSE MinOf(S)

\* the greatest element of S, d when S is empty
LastOr(S, d) == IF S = {} THEN d ELSE MaxOf(S)

\* first position at or after pos whose character is outside cls
RunEnd(s, pos, cls) ==
    FirstOr({j \in pos..Len(s) : ~InClass(cls, Char(s, j))}, Len(s) + 1)

\* position of the last non-whitespace character of s, 0 if there is none
LastNonSpace(s) == LastOr({j \in 1..Len(s) : Char(s, j) \notin Spaces}, 0)

(***************************************************************************)
(* A small regular-expression matcher for the shapes the code uses: an    *)
(* alternation of atom sequences, an atom being a literal or a greedy     *)
(* class run with a minimum and a maximum length (max = -1: unbounded).   *)
(* None of the code's patterns needs backtracking into a run.             *)
(***************************************************************************)
Lit(str) == [k |-> "lit", s |-> str, min |-> 0, max |-> 0]

Cls(c, lo, hi) == [k |-> "cls", s |-> c, min |-> lo, max |-> hi]

\* equality of two texts, under re.IGNORECASE when ic
SameText(a, b, ic) == IF ic THEN Lower(a) = Lower(b) ELSE a = b

\* position after the literal a matched at pos, or 0
LitEnd(a, s, pos, ic) ==
    IF pos + Len(a.s) - 1 <= Len(s) /\ SameText(SubSeq(s, pos, pos + Len(a.s) - 1), a.s, ic)
    THEN pos + Len(a.s) ELSE 0

\* a run that stops at r, cut at the atom's maximum, or 0 when under its minimum
RunWithin(a, pos, r) ==
    IF a.max >= 0 /\ r - pos > a.max THEN pos + a.max
    ELSE IF r - pos >= a.min THEN r
    ELSE 0

\* position after atom a matched at pos, or 0 when it does not match
AtomEnd(a, s, pos, ic) ==
    IF a.k = "lit" THEN LitEnd(a, s, pos, ic)
    ELSE RunWithin(a, pos, RunEnd(s, pos, a.s))

\* e followed by the ends of the later atoms, <<>> when those failed
EndsAfter(e, rest) == IF rest = <<>> THEN <<>> ELSE <<e>> \o rest

RECURSIVE MatchFrom(_, _, _, _, _)
\* atom k ended at e (0: it failed): the ends of atoms k.. or <<>>
MatchRest(pat, k, s, e, ic) ==
    IF e = 0 THEN <<>>
    ELSE IF k = Len(pat) THEN <<e>>
    ELSE EndsAfter(e, MatchFrom(pat, k + 1, s, e, ic))

\* <<end of atom k, ..., end of last atom>> or <<>> when pat[k..] fails at pos
MatchFrom(pat, k, s, pos, ic) == MatchRest(pat, k, s, AtomEnd(pat[k], s, pos, ic), ic)

\* the first alternative that matched, ms[a] being the ends of alternative a
FirstAlt(ms) ==
    IF \A a \in DOMAIN ms : ms[a] = <<>> THEN [alt |-> 0, ends |-> <<>>]
    ELSE [alt |-> MinOf({a \in DOMAIN ms : ms[a] # <<>>}),
          ends |-> ms[MinOf({a \in DOMAIN ms : ms[a] # <<>>})]]

\* the first alternative of regex matching at pos: [alt, ends], alt = 0 if none
MatchAt(regex, s, pos, ic) ==
    FirstAlt([a \in 1..Len(regex) |-> MatchFrom(regex[a], 1, s, pos, ic)])

\* the characters a match of regex can start with (every pattern of the code
\* starts with a literal); used to skip positions where no match can start
FirstChars(regex, ic) ==
    {IF ic THEN LowerChar(Char(regex[a][1].s, 1)) ELSE Char(regex[a][1].s, 1) :
        a \in 1..Len(regex)}

\* can a match start with the character at p
StartsHere(first, s, p, ic) ==
    (IF ic THEN LowerChar(Char(s, p)) ELSE Char(s, p)) \in first

\* the leftmost position at or after from where regex matches, 0 if none
FirstHit(regex, s, from, ic) ==
    LET first == FirstChars(regex, ic)
    IN  FirstOr({p \in from..Len(s) :
                    StartsHere(first, s, p, ic) /\ MatchAt(regex, s, p, ic).alt # 0}, 0)

NoMatch == [start |-> 0, alt |-> 0, ends |-> <<>>]

MatchOf(p, m) == [start |-> p, alt |-> m.alt, ends |-> m.ends]

\* the match object of the match that starts at p (0: no match)
SearchAt(regex, s, p, ic) ==
    IF p = 0 THEN NoMatch ELSE MatchOf(p, MatchAt(regex, s, p, ic))

\* re.search from position from: [start, alt, ends], start = 0 when no match
Search(regex, s, from, ic) == SearchAt(regex, s, FirstHit(regex, s, from, ic), ic)

MatchEnd(m) == m.ends[Len(m.ends)]

\* match.group(0)
Group0(s, m) == SubSeq(s, m.start, MatchEnd(m) - 1)

\* the text matched by atoms a..b of the alternative that matched
GroupOf(s, m, a, b) ==
    SubSeq(s, IF a = 1 THEN m.start ELSE m.ends[a - 1], m.ends[b] - 1)

RECURSIVE SubFrom(_, _, _, _)
\* s[from..] with match m (the first one at or after from) and the later ones removed
SubAfter(regex, s, from, m, ic) ==
    IF m.start = 0 THEN SubSeq(s, from, Len(s))
    ELSE SubSeq(s, from, m.start - 1) \o SubFrom(regex, s, MatchEnd(m), ic)

SubFrom(regex, s, from, ic) == SubAfter(regex, s, from, Search(regex, s, from, ic), ic)

\* re.sub(regex, "", s)
ReSub(regex, s, ic) == SubFrom(regex, s, 1, ic)

RECURSIVE CollapseRange(_, _, _, _)
\* the characters lo..hi of s after whitespace collapse: a non-space is kept, a
\* whitespace character becomes one space when it ends a non-space run and a
\* non-space follows somewhere (last: the last non-space position), and is
\* dropped otherwise; the range is halved to keep the evaluation shallow
CollapseRange(s, lo, hi, last) ==
    IF lo > hi THEN ""
    ELSE IF lo = hi
    THEN IF Char(s, lo) \notin Spaces THEN Char(s, lo)
         ELSE IF lo > 1 /\ lo < last /\ Char(s, lo - 1) \notin Spaces THEN " "
         ELSE ""
    ELSE CollapseRange(s, lo, (lo + hi) \div 2, last)
            \o CollapseRange(s, (lo + hi) \div 2 + 1, hi, last)

\* " ".join(s.split()), also re.sub(r"\s+", " ", s).strip()
Collapse(s) == CollapseRange(s, 1, Len(s), LastNonSpace(s))

\* the slice s[:n]
Prefix(s, n) == SubSeq(s, 1, IF Len(s) < n THEN Len(s) ELSE n)

\* str.strip()
Strip(s) ==
    IF LastNonSpace(s) = 0 THEN "" ELSE SubSeq(s, RunEnd(s, 1, "s"), LastNonSpace(s))


(***************************************************************************)
(* Optional values: Python's None against a string                        *)
(***************************************************************************)
None == [some |-> FALSE, v |-> ""]

Some(x) == [some |-> TRUE, v |-> x]

\* Python truthiness of an Optional[str]
Truthy(o) == o.some /\ o.v # ""

(***************************************************************************)
(* clean.py                                                               *)
(***************************************************************************)
\* _strip_html on markup-free text: whitespace runs collapsed, outer trim
\* (the texts drawn below hold no tags and no entities)
StripHtml(value) == IF value = "" THEN value ELSE Collapse(value)

SeasonAlt(tail) ==
    << <<Lit("Fall")>> \o tail, <<Lit("Spring")>> \o tail,
       <<Lit("Summer")>> \o tail, <<Lit("Winter")>> \o tail >>

\* the badge patterns of _clean_comment_text, in the order they are applied
BadgePatterns ==
    << SeasonAlt(<<Cls("s", 1, -1), Cls("d", 4, 4)>>),
       << <<Lit("International")>> >>,
       << <<Lit("American")>> >>,
       << <<Lit("Domestic")>> >>,
       << <<Lit("GPA"), Cls("s", 1, -1), Cls("dd", 1, -1)>> >>,
       << <<Lit("GRE"), Cls("s", 1, -1), Lit("General"), Cls("s", 1, -1), Cls("d", 1, -1)>>,
          <<Lit("GRE"), Cls("s", 1, -1), Cls("d", 1, -1)>> >>,
       << <<Lit("GRE"), Cls("s", 1, -1), Lit("V"), Cls("s", 0, -1), Cls("d", 1, -1)>> >>,
       << <<Lit("AW"), Cls("s", 1, -1), Cls("dd", 1, -1)>> >>,
       << <<Lit("Accepted on "), Cls("d", 1, -1), Cls("s", 1, -1), Cls("w", 1, -1)>> >>,
       << <<Lit("Rejected on "), Cls("d", 1, -1), Cls("s", 1, -1), Cls("w", 1, -1)>> >> >>

RECURSIVE StripBadges(_, _)
StripBadges(cleaned, k) ==
    IF k > Len(BadgePatterns) THEN cleaned
    ELSE StripBadges(ReSub(BadgePatterns[k], cleaned, TRUE), k + 1)

\* the gate with its length test off by one
GatedCommentFrom15(cleaned) ==
    IF Len(cleaned) >= 15 /\ ~(\A j \in 1..Len(cleaned) : Char(cleaned, j) \in {".", ",", ";", ":", "!", "?", " "})
    THEN Some(Prefix(cleaned, 500))
    ELSE None

MinCommentLen == 15

MaxCommentLen == 500

PunctChars == {".", ",", ";", ":", "!", "?", " "}

AllPunct(s) == \A j \in 1..Len(s) : Char(s, j) \in PunctChars

\* lines 148-150: the length and punctuation gate, then the cut at 500
GatedComment(cleaned) ==
    IF Len(cleaned) > MinCommentLen /\ ~AllPunct(cleaned)
    THEN Some(Prefix(cleaned, MaxCommentLen))
    ELSE None

\* _clean_comment_text
CleanCommentText(text) ==
    IF text = "" THEN None
    ELSE GatedComment(Collapse(StripBadges(StripHtml(text), 1)))

(***************************************************************************)
(* URLs (urllib.parse.urljoin for the reference shapes the scraper meets: *)
(* an empty reference, an absolute one, a path rooted at "/")             *)
(***************************************************************************)
StartsWith(s, prefix) ==
    Len(s) >= Len(prefix) /\ SubSeq(s, 1, Len(prefix)) = prefix

\* scheme://host of an absolute URL
OriginOf(url, m) == IF m.start = 0 THEN "" ELSE SubSeq(url, 1, MatchEnd(m) - 1)

Origin(url) == OriginOf(url, Search(<< <<Lit("://"), Cls("seg", 0, -1)>> >>, url, 1, FALSE))

UrlJoin(base, ref) ==
    IF ref = "" THEN base
    ELSE IF Search(<< <<Lit("://")>> >>, ref, 1, FALSE).start # 0 THEN ref
    ELSE IF StartsWith(ref, "/") THEN Origin(base) \o ref
    ELSE SubSeq(base, 1, MaxOf({j \in 1..Len(base) : Char(base, j) = "/"})) \o ref

(***************************************************************************)
(* The web: what a GET of a URL answers.  A page is held as the document  *)
(* BeautifulSoup parses it to: the <tr> rows of its first table, the      *)
(* <dt>/<dd> items of a result page, and the hrefs of its <a> tags.       *)
(***************************************************************************)
HttpOk == 200

NoPage == [status |-> 404, table |-> FALSE, rows |-> <<>>, dl |-> <<>>, links |-> <<>>]

\* _http.request("GET", url): a URL the site does not serve answers 404
Get(w, url) == IF url \in DOMAIN w THEN w[url] ELSE NoPage

\* _fetch_url: one GET (then the pause); None on a non-200 status.  The body is
\* handed on as the parsed page.
FetchUrl(w, url) ==
    LET resp == Get(w, url)
    IN  IF resp.status # HttpOk THEN [ok |-> FALSE, page |-> NoPage]
        ELSE [ok |-> TRUE, page |-> resp]

NoteLabels == {"notes", "note", "comments", "comment"}

\* dt.find_next_sibling("dd"): index of the first <dd> after item k, 0 if none
NextDd(dl, k) == FirstOr({j \in (k + 1)..Len(dl) : dl[j].tag = "dd"}, 0)

\* _extract_comments_from_result_page, after its fetch
\* lines 115-122: the first <dt> with a notes label whose next <dd> has text
FirstNotes(dl) ==
    FirstOr({k \in 1..Len(dl) :
                /\ dl[k].tag = "dt"
                /\ Lower(Strip(dl[k].text)) \in NoteLabels
                /\ NextDd(dl, k) # 0
                /\ Strip(dl[NextDd(dl, k)].text) # ""}, 0)

\* the stripped text of the <dd> after item k (0: there is none)
DdText(dl, k) == IF k = 0 THEN None ELSE Some(Strip(dl[NextDd(dl, k)].text))

NotesOfPage(f) == IF ~f.ok THEN None ELSE DdText(f.page.dl, FirstNotes(f.page.dl))

\* _extract_comments_from_result_page
ExtractCommentsFromResultPage(w, result_url) == NotesOfPage(FetchUrl(w, result_url))

(***************************************************************************)
(* scrape.py: _extract_entries_from_page                                  *)
(***************************************************************************)
StatusRe ==
    << <<Lit("Accepted")>>, <<Lit("Rejected")>>, <<Lit("Interview")>>,
       <<Lit("Wait"), Cls("s", 0, 1), Lit("listed")>> >>

\* on\s+(.+): cell text is stripped, so a non-space always follows the spaces
DateRe == << <<Lit("on"), Cls("s", 1, -1), Cls("dot", 1, -1)>> >>

TermRe == SeasonAlt(<<Cls("s", 1, -1), Cls("d", 4, 4)>>)

GpaRe == << <<Lit("GPA"), Cls("s", 1, -1), Cls("dd", 1, -1)>> >>

GreRe ==
    << <<Lit("GRE"), Cls("s", 1, -1), Lit("General"), Cls("s", 1, -1), Cls("d", 1, -1)>>,
       <<Lit("GRE"), Cls("s", 1, -1), Cls("d", 1, -1)>> >>

GreVRe == << <<Lit("GRE"), Cls("s", 1, -1), Lit("V"), Cls("s", 0, -1), Cls("d", 1, -1)>> >>

GreAwRe ==
    << <<Lit("GRE"), Cls("s", 1, -1), Lit("AW"), Cls("s", 1, -1), Cls("dd", 1, -1)>>,
       <<Lit("AW"), Cls("s", 1, -1), Cls("dd", 1, -1)>> >>

Contains(s, word) == Search(<< <<Lit(word)>> >>, s, 1, FALSE).start # 0

\* match.group(1) of a pattern whose one group is its last atom, None if no match
LastGroupOf(s, m) ==
    IF m.start = 0 THEN None ELSE Some(GroupOf(s, m, Len(m.ends), Len(m.ends)))

LastGroup(regex, s, ic) == LastGroupOf(s, Search(regex, s, 1, ic))

\* match.group(0), None if no match
WholeMatch(s, m) == IF m.start = 0 THEN None ELSE Some(Group0(s, m))

\* accepted_date assigned for every status but Rejected
DecisionFieldsUnlessRejected(status, decision_date) ==
    [applicant_status |-> status,
     accepted_date |-> IF Truthy(status) /\ Lower(status.v) # "rejected"
                       THEN decision_date ELSE None,
     rejected_date |-> IF Truthy(status) /\ Lower(status.v) = "rejected"
                       THEN decision_date ELSE None]

\* both date fields assigned whatever the status
DecisionFieldsBoth(status, decision_date) ==
    [applicant_status |-> status,
     accepted_date |-> IF Truthy(status) THEN decision_date ELSE None,
     rejected_date |-> IF Truthy(status) THEN decision_date ELSE None]

\* lines 181-189: the two decision dates, from status and decision_date
DecisionFields(status, decision_date) ==
    [applicant_status |-> status,
     accepted_date |-> IF Truthy(status) /\ Lower(status.v) = "accepted"
                       THEN decision_date ELSE None,
     rejected_date |-> IF Truthy(status) /\ Lower(status.v) # "accepted"
                                         /\ Lower(status.v) = "rejected"
                       THEN decision_date ELSE None]

\* line 185: date_match.group(1).strip() if date_match else None
DecisionDate(date_match) == IF date_match.some THEN Some(Strip(date_match.v)) ELSE None

\* lines 177-189: status and the two decision dates from the decision cell
ParseDecision(decision_text) ==
    DecisionFields(WholeMatch(decision_text, Search(StatusRe, decision_text, 1, TRUE)),
                   DecisionDate(LastGroup(DateRe, decision_text, TRUE)))

NoDetails ==
    [start_term |-> None, citizenship |-> None, gpa |-> None, gre_score |-> None,
     gre_v |-> None, gre_aw |-> None, comments |-> None]

\* lines 205-232: the fields read from the text of a details row
ParseDetails(details_text) ==
    [start_term |-> WholeMatch(details_text, Search(TermRe, details_text, 1, FALSE)),
     citizenship |-> IF Contains(details_text, "International") THEN Some("International")
                     ELSE IF Contains(details_text, "American")
                             \/ Contains(details_text, "Domestic") THEN Some("American")
                     ELSE None,
     gpa |-> LastGroup(GpaRe, details_text, FALSE),
     gre_score |-> LastGroup(GreRe, details_text, FALSE),
     gre_v |-> LastGroup(GreVRe, details_text, FALSE),
     gre_aw |-> LastGroup(GreAwRe, details_text, FALSE),
     comments |-> CleanCommentText(details_text)]

(***************************************************************************)
(* The cell texts the pages below are written with.  The two tables hold  *)
(* ParseDecision and ParseDetails of these texts, so that a text is       *)
(* parsed once and not once per state.                                    *)
(***************************************************************************)
BadgeText == "Fall 2026 International GPA 3.8 GRE 325 GRE V 165 AW 4.5"

RemarkText == "Spring 2027 American Great visit day, funding offer came a week later"

RECURSIVE Rep(_, _)
\* c repeated n times
Rep(c, n) ==
    IF n = 0 THEN ""
    ELSE IF n % 2 = 0 THEN Rep(c \o c, n \div 2)
    ELSE c \o Rep(c, n - 1)

\* a details text whose remark alone is longer than 500 characters
LongRemarkText == "Fall 2026 GPA 3.9 " \o Rep("a really great program ", 25)

\* a details text that is badges and punctuation only
PunctText == "Fall 2026 , ... ; ... ! ... ? ... : ..."

DetailTexts == {BadgeText, RemarkText, LongRemarkText, PunctText, "OnlyTwo", "Header", ""}

DecisionTexts ==
    {"Accepted on 28 Jan", "Rejected on 10 Jan", "Wait listed", "Interview on 5 Feb",
     "ACCEPTED ON 3 MAR", "Rejected on 2 Apr, Accepted elsewhere", "Pending", ""}

DecisionTable == [t \in DecisionTexts |-> ParseDecision(t)]

DetailsTable == [t \in DetailTexts |-> ParseDetails(t)]

DecisionOf(t) == IF t \in DecisionTexts THEN DecisionTable[t] ELSE ParseDecision(t)

DetailsOf(t) == IF t \in DetailTexts THEN DetailsTable[t] ELSE ParseDetails(t)

MinCells == 4

\* the details-row test without its colspan condition
HasDetailsRowAny(trs, ix) == ix + 1 < Len(trs)

\* lines 200-238: does the row after rows[i] serve as the details row
\* (i is the code's 0-based index; the row list is 1-based here)
HasDetailsRow(trs, ix) == ix + 1 < Len(trs) /\ trs[ix + 2].colspan

\* lines 240-247: the detail-page link of a primary row
ResultLink(row1, page_url) ==
    IF row1.ncells > MinCells /\ row1.href.some
    THEN IF StartsWith(row1.href.v, "http") THEN Some(row1.href.v)
         ELSE Some(UrlJoin(page_url, row1.href.v))
    ELSE None

\* the precedence the other way round: the row-2 comment wins when there is one
FinalCommentsFallbackFirst(comments, rich_comments) ==
    IF Truthy(comments) THEN comments ELSE rich_comments

\* lines 249-253: detail-page comments take precedence when non-empty
FinalComments(comments, rich_comments) ==
    IF Truthy(rich_comments) THEN rich_comments ELSE comments

\* the url field without its fallback to the listing URL
EntryUrlNoFallback(result_link, page_url) == result_link.v

\* line 260
EntryUrl(result_link, page_url) ==
    IF Truthy(result_link) THEN result_link.v ELSE page_url

\* lines 255-271: the entry dictionary
MakeEntry(row1, dec, det, result_link, rich_comments, page_url) ==
    [program_name |-> IF Len(row1.spans) > 0 THEN row1.spans[1] ELSE "",
     university |-> row1.university,
     comments |-> FinalComments(det.comments, rich_comments),
     date_posted |-> Some(row1.date),
     url |-> EntryUrl(result_link, page_url),
     applicant_status |-> dec.applicant_status,
     accepted_date |-> dec.accepted_date,
     rejected_date |-> dec.rejected_date,
     start_term |-> det.start_term,
     citizenship |-> det.citizenship,
     gre_score |-> det.gre_score,
     gre_v |-> det.gre_v,
     gre_aw |-> det.gre_aw,
     degree |-> IF Len(row1.spans) > 1 THEN Some(row1.spans[2]) ELSE None,
     gpa |-> det.gpa]

\* lines 250-251: the detail page is fetched only when the row has a link
RichComments(w, result_link) ==
    IF Truthy(result_link) THEN ExtractCommentsFromResultPage(w, result_link.v) ELSE None

\* lines 200-238: the details of primary row trs[ix + 1]
RowDetails(trs, ix) ==
    IF HasDetailsRow(trs, ix) THEN DetailsOf(trs[ix + 2].text) ELSE NoDetails

\* lines 240-272, the link of the row being known
EntryWithLink(w, trs, ix, result_link, page_url) ==
    MakeEntry(trs[ix + 1], DecisionOf(trs[ix + 1].decision), RowDetails(trs, ix),
              result_link, RichComments(w, result_link), page_url)

\* lines 163-272: the entry built from primary row trs[ix + 1] (and its details row)
BuildEntry(w, trs, ix, page_url) ==
    EntryWithLink(w, trs, ix, ResultLink(trs[ix + 1], page_url), page_url)

\* the detail-page GETs so far, after the one of a row with link result_link
FetchedAfter(fetched_so_far, result_link) ==
    IF Truthy(result_link) THEN Append(fetched_so_far, result_link.v) ELSE fetched_so_far

\* the loop iteration without the cell-count test of lines 159-161
ParseStepNoSkip(w, trs, page_url, st) ==
    [i |-> IF HasDetailsRow(trs, st.i) THEN st.i + 2 ELSE st.i + 1,
     entries |-> Append(st.entries, BuildEntry(w, trs, st.i, page_url)),
     fetched |-> FetchedAfter(st.fetched, ResultLink(trs[st.i + 1], page_url))]

\* the loop iteration that passes two rows at a row of fewer than 4 cells
ParseStepShortByTwo(w, trs, page_url, st) ==
    IF trs[st.i + 1].ncells < MinCells
    THEN [st EXCEPT !.i = st.i + 2]
    ELSE [i |-> IF HasDetailsRow(trs, st.i) THEN st.i + 2 ELSE st.i + 1,
          entries |-> Append(st.entries, BuildEntry(w, trs, st.i, page_url)),
          fetched |-> FetchedAfter(st.fetched, ResultLink(trs[st.i + 1], page_url))]

\* one iteration of the while loop (lines 154-272) from parser state
\* st = [i, entries, fetched]; fetched logs the detail-page GETs
ParseStep(w, trs, page_url, st) ==
    IF trs[st.i + 1].ncells < MinCells
    THEN [st EXCEPT !.i = st.i + 1]
    ELSE [i |-> IF HasDetailsRow(trs, st.i) THEN st.i + 2 ELSE st.i + 1,
          entries |-> Append(st.entries, BuildEntry(w, trs, st.i, page_url)),
          fetched |-> FetchedAfter(st.fetched, ResultLink(trs[st.i + 1], page_url))]

RECURSIVE ParseLoop(_, _, _, _)
ParseLoop(w, trs, page_url, st) ==
    IF st.i < Len(trs) THEN ParseLoop(w, trs, page_url, ParseStep(w, trs, page_url, st))
    ELSE st

\* _extract_entries_from_page: [i, entries, fetched] at return
ExtractEntriesFromPage(w, page, page_url) ==
    IF ~page.table THEN [i |-> 1, entries |-> <<>>, fetched |-> <<>>]
    ELSE ParseLoop(w, page.rows, page_url, [i |-> 1, entries |-> <<>>, fetched |-> <<>>])

(***************************************************************************)
(* module_2/scrape.py: _find_post_links                                   *)
(***************************************************************************)
\* the ASCII characters URLs are made of, in code order, for Python's string
\* comparison in sorted()
AsciiOrder ==
    "#%&+-./0123456789:=?ABCDEFGHIJKLMNOPQRSTUVWXYZ_abcdefghijklmnopqrstuvwxyz~"

CharCode(c) == CHOOSE k \in 1..Len(AsciiOrder) : Char(AsciiOrder, k) = c

StrLess(a, b) ==
    LET n == IF Len(a) < Len(b) THEN Len(a) ELSE Len(b)
        diff == {j \in 1..n : Char(a, j) # Char(b, j)}
    IN  IF diff = {} THEN Len(a) < Len(b)
        ELSE LET j == CHOOSE m \in diff : \A k \in diff : m <= k
             IN  CharCode(Char(a, j)) < CharCode(Char(b, j))

RECURSIVE SortedSeq(_)
\* sorted(set of strings)
SortedSeq(S) ==
    IF S = {} THEN <<>>
    ELSE LET least == CHOOSE x \in S : \A y \in S \ {x} : StrLess(x, y)
         IN  <<least>> \o SortedSeq(S \ {least})

\* _find_post_links: the /survey/ page first, then the other survey links sorted
FindPostLinks(page, base_url) ==
    LET hrefs == {Strip(page.links[k]) : k \in 1..Len(page.links)}
        found == {UrlJoin(base_url, h) : h \in {x \in hrefs : x # "" /\ Contains(x, "/survey")}}
        base_survey == UrlJoin(base_url, "/survey/")
    IN  <<base_survey>> \o SortedSeq(found \ {base_survey})

(***************************************************************************)
(* The pagination driver: scrape_data of module_4 (mode "pages") and of   *)
(* module_2 (mode "links")                                                *)
(***************************************************************************)
DEFAULT_BASE == "https://www.thegradcafe.com/"

\* page addressing with the query parameter on the first page too
PageUrlAlwaysQuery(base_url, n) == UrlJoin(base_url, "/survey/?page=" \o ToString(n))

\* lines 304-307 of module_4/src/scrape.py
PageUrl(base_url, n) ==
    IF n = 1 THEN UrlJoin(base_url, "/survey/")
    ELSE UrlJoin(base_url, "/survey/?page=" \o ToString(n))

\* the append loop without its limit test
AppendAll(acc, es, k, lim) == acc \o SubSeq(es, k, Len(es))

\* a loop body that puts the new entries in front of the accumulator
PrependUpTo(acc, es, k, lim) ==
    SubSeq(es, 1, IF Len(es) < lim - Len(acc) THEN Len(es) ELSE lim - Len(acc)) \o acc

\* a loop body that appends nothing
AppendNothing(acc, es, k, lim) == acc

\* lines 323-326: for entry in entries: if len(results) >= limit: break; append
RECURSIVE AppendUpTo(_, _, _, _)
AppendUpTo(acc, es, k, lim) ==
    IF k > Len(es) \/ Len(acc) >= lim THEN acc
    ELSE AppendUpTo(Append(acc, es[k]), es, k + 1, lim)

VARIABLES
    web,              \* what each URL answers during the run
    mode,             \* "pages": module_4 scrape_data, "links": module_2 scrape_data
    limit,            \* the limit argument
    pc,               \* "start", "loop", "done" (scrape_data has returned results)
    page_num,         \* module_4: the page number of the next listing fetch
    links,            \* module_2: the links found on the base page
    link_idx,         \* module_2: position of the for loop in links
    results,          \* the accumulator
    pages_processed,  \* the pages_processed counter
    gets              \* the GETs issued so far: [url, kind, ok], in order

scrapeVars == <<web, mode, limit, pc, page_num, links, link_idx, results, pages_processed, gets>>

Listing(url, f) == [url |-> url, kind |-> "listing", ok |-> f.ok]

DetailGets(w, urls) == [k \in 1..Len(urls) |-> [url |-> urls[k], kind |-> "detail", ok |-> FetchUrl(w, urls[k]).ok]]

\* module_4 line 302: the while condition fails, scrape_data returns
PagesReturn ==
    /\ mode = "pages" /\ pc = "loop"
    /\ ~(Len(results) < limit)
    /\ pc' = "done"
    /\ UNCHANGED <<web, mode, limit, page_num, links, link_idx, results, pages_processed, gets>>

\* module_4 lines 302-314: the listing fetch fails, break
PagesFetchFail ==
    /\ mode = "pages" /\ pc = "loop"
    /\ Len(results) < limit
    /\ LET page_url == PageUrl(DEFAULT_BASE, page_num)
           page_html == FetchUrl(web, page_url)
       IN  /\ ~page_html.ok
           /\ gets' = Append(gets, Listing(page_url, page_html))
    /\ pages_processed' = pages_processed + 1
    /\ pc' = "done"
    /\ UNCHANGED <<web, mode, limit, page_num, links, link_idx, results>>

\* module_4 lines 302-319: the page holds no entry, break
PagesEmpty ==
    /\ mode = "pages" /\ pc = "loop"
    /\ Len(results) < limit
    /\ LET page_url == PageUrl(DEFAULT_BASE, page_num)
           page_html == FetchUrl(web, page_url)
           parsed == ExtractEntriesFromPage(web, page_html.page, page_url)
       IN  /\ page_html.ok
           /\ parsed.entries = <<>>
           /\ gets' = Append(gets, Listing(page_url, page_html)) \o DetailGets(web, parsed.fetched)
    /\ pages_processed' = pages_processed + 1
    /\ pc' = "done"
    /\ UNCHANGED <<web, mode, limit, page_num, links, link_idx, results>>

\* module_4 lines 302-328: entries appended up to limit, next page
PagesAppend ==
    /\ mode = "pages" /\ pc = "loop"
    /\ Len(results) < limit
    /\ LET page_url == PageUrl(DEFAULT_BASE, page_num)
           page_html == FetchUrl(web, page_url)
           parsed == ExtractEntriesFromPage(web, page_html.page, page_url)
       IN  /\ page_html.ok
           /\ parsed.entries # <<>>
           /\ gets' = Append(gets, Listing(page_url, page_html)) \o DetailGets(web, parsed.fetched)
           /\ results' = AppendUpTo(results, parsed.entries, 1, limit)
    /\ pages_processed' = pages_processed + 1
    /\ page_num' = page_num + 1
    /\ UNCHANGED <<web, mode, limit, pc, links, link_idx>>

\* module_2 lines 229-231: the base page cannot be fetched, return []
LinksIndexFail ==
    /\ mode = "links" /\ pc = "start"
    /\ LET html == FetchUrl(web, DEFAULT_BASE)
       IN  /\ ~html.ok
           /\ gets' = Append(gets, [url |-> DEFAULT_BASE, kind |-> "index", ok |-> FALSE])
    /\ pc' = "done"
    /\ UNCHANGED <<web, mode, limit, page_num, links, link_idx, results, pages_processed>>

\* module_2 lines 229-237: the base page is fetched and its survey links found
LinksDiscover ==
    /\ mode = "links" /\ pc = "start"
    /\ LET html == FetchUrl(web, DEFAULT_BASE)
       IN  /\ html.ok
           /\ gets' = Append(gets, [url |-> DEFAULT_BASE, kind |-> "index", ok |-> TRUE])
           /\ links' = FindPostLinks(html.page, DEFAULT_BASE)
    /\ link_idx' = 1
    /\ pc' = "loop"
    /\ UNCHANGED <<web, mode, limit, page_num, results, pages_processed>>

\* module_2 lines 239-241, 257-258: links exhausted or limit reached, return
LinksReturn ==
    /\ mode = "links" /\ pc = "loop"
    /\ link_idx > Len(links) \/ Len(results) >= limit
    /\ pc' = "done"
    /\ UNCHANGED <<web, mode, limit, page_num, links, link_idx, results, pages_processed, gets>>

\* module_2 lines 243-247: the fetch of a link fails, continue with the next link
LinksSkipFailed ==
    /\ mode = "links" /\ pc = "loop"
    /\ link_idx <= Len(links) /\ Len(results) < limit
    /\ LET link == links[link_idx]
           page_html == FetchUrl(web, link)
       IN  /\ ~page_html.ok
           /\ gets' = Append(gets, Listing(link, page_html))
    /\ pages_processed' = pages_processed + 1
    /\ link_idx' = link_idx + 1
    /\ UNCHANGED <<web, mode, limit, pc, page_num, links, results>>

\* module_2 lines 243-255: the entries of a link appended up to limit (an empty
\* page appends nothing), then the next link
LinksAppend ==
    /\ mode = "links" /\ pc = "loop"
    /\ link_idx <= Len(links) /\ Len(results) < limit
    /\ LET link == links[link_idx]
           page_html == FetchUrl(web, link)
           parsed == ExtractEntriesFromPage(web, page_html.page, link)
       IN  /\ page_html.ok
           /\ gets' = Append(gets, Listing(link, page_html)) \o DetailGets(web, parsed.fetched)
           /\ results' = AppendUpTo(results, parsed.entries, 1, limit)
    /\ pages_processed' = pages_processed + 1
    /\ link_idx' = link_idx + 1
    /\ UNCHANGED <<web, mode, limit, pc, page_num, links>>

(***************************************************************************)
(* The pages the runs are checked on                                      *)
(***************************************************************************)
HeaderRow ==
    [ncells |-> 0, colspan |-> FALSE, university |-> "", spans |-> <<>>, date |-> "",
     decision |-> "", href |-> None, text |-> "Header"]

\* a row of fewer than 4 <td> cells; span: one of them carries a colspan
ShortRow(n, span, text) ==
    [ncells |-> n, colspan |-> span, university |-> "", spans |-> <<>>, date |-> "",
     decision |-> "", href |-> None, text |-> text]

\* a row of n >= 4 <td> cells; href: the link of the 5th cell
PrimaryRow(univ, n, decision, href, span) ==
    [ncells |-> n, colspan |-> span, university |-> univ,
     spans |-> <<"Computer Science", "PhD">>, date |-> "01 Feb 2026",
     decision |-> decision, href |-> href,
     text |-> univ \o "Computer SciencePhD01 Feb 2026" \o decision]

DetailUrl123 == "https://www.thegradcafe.com/result/123"

DetailUrl456 == "https://www.thegradcafe.com/result/456"

RichText == "Detailed comments from result page!"

ResultPage(items) ==
    [status |-> HttpOk, table |-> FALSE, rows |-> <<>>, dl |-> items, links |-> <<>>]

NotesPage(text) ==
    ResultPage(<< [tag |-> "dt", text |-> "Institution"], [tag |-> "dd", text |-> "Stanford"],
                  [tag |-> "dt", text |-> " Notes "], [tag |-> "dd", text |-> text] >>)

ListingPage(trs) ==
    [status |-> HttpOk, table |-> TRUE, rows |-> trs, dl |-> <<>>, links |-> <<>>]

ErrorPage == [NoPage EXCEPT !.status = 500]

PlainPage == [NoPage EXCEPT !.status = HttpOk]

RowNoLink == PrimaryRow("MIT", 4, "Rejected on 10 Jan", None, FALSE)

RowLink123 == PrimaryRow("Stanford University", 5, "Accepted on 28 Jan", Some("/result/123"), FALSE)

RowLink456 == PrimaryRow("CMU", 5, "Wait listed", Some(DetailUrl456), FALSE)

\* the listing pages a run can meet: a failed fetch, a page without a table, a
\* table without a result row, and tables of one and of two entries
ListingChoices ==
    { ErrorPage, PlainPage,
      ListingPage(<<HeaderRow, ShortRow(2, FALSE, "OnlyTwo")>>),
      ListingPage(<<HeaderRow, RowNoLink>>),
      ListingPage(<<HeaderRow, RowLink123, ShortRow(1, TRUE, BadgeText), RowLink456>>) }

MaxPages == 3

MaxLimit == 3

\* the hrefs of the base page: the survey pages in reverse order, a repeated
\* link, a link that is no survey link, an empty href
IndexLinks ==
    [k \in 1..MaxPages |->
        IF k = MaxPages THEN " /survey/ " ELSE "/survey/?page=" \o ToString(MaxPages + 1 - k)]
    \o <<"/about", "/survey/", "">>

IndexChoices == { ErrorPage, [PlainPage EXCEPT !.links = IndexLinks] }

SiteUrls == {DEFAULT_BASE, DetailUrl123} \cup {PageUrl(DEFAULT_BASE, k) : k \in 1..MaxPages}

\* the site: base page idx, listing page k is listing[k], one result page
Site(idx, listing) ==
    [u \in SiteUrls |->
        IF u = DEFAULT_BASE THEN idx
        ELSE IF u = DetailUrl123 THEN NotesPage(RichText)
        ELSE listing[CHOOSE k \in 1..MaxPages : PageUrl(DEFAULT_BASE, k) = u]]

(***************************************************************************)
(* The entry parser, one loop iteration per step: _extract_entries_from_  *)
(* page run on a table whose rows are drawn from RowKinds                 *)
(***************************************************************************)
VARIABLES
    rows,        \* table.find_all('tr'), the header row first
    source_url,  \* the URL the page was fetched from
    i,           \* the row index of the while loop (0-based, as in the code)
    entries,     \* the entries built so far
    fetched      \* the detail-page URLs fetched so far

parseVars == <<rows, source_url, i, entries, fetched>>

ParserState == [i |-> i, entries |-> entries, fetched |-> fetched]

ParserMoves(st) ==
    /\ i' = st.i
    /\ entries' = st.entries
    /\ fetched' = st.fetched
    /\ UNCHANGED <<rows, source_url>>

\* lines 158-161: a row of fewer than 4 cells is passed over
ParseSkipRow ==
    /\ i < Len(rows)
    /\ rows[i + 1].ncells < MinCells
    /\ ParserMoves(ParseStep(web, rows, source_url, ParserState))

\* lines 163-234, 240-272: a primary row and its details row make one entry
ParseRowPair ==
    /\ i < Len(rows)
    /\ rows[i + 1].ncells >= MinCells
    /\ HasDetailsRow(rows, i)
    /\ ParserMoves(ParseStep(web, rows, source_url, ParserState))

\* lines 163-201, 235-272: a primary row alone makes one entry
ParseRowAlone ==
    /\ i < Len(rows)
    /\ rows[i + 1].ncells >= MinCells
    /\ ~HasDetailsRow(rows, i)
    /\ ParserMoves(ParseStep(web, rows, source_url, ParserState))

LongNotes == Rep("x", 501)

\* the rows a table is made of: short rows with and without a colspan cell,
\* primary rows with and without a 5th cell, a link, a colspan cell, with the
\* decision texts of DecisionTexts
RowKinds ==
    { ShortRow(2, FALSE, "OnlyTwo"),
      ShortRow(1, TRUE, BadgeText),
      ShortRow(1, TRUE, RemarkText),
      ShortRow(1, TRUE, LongRemarkText),
      ShortRow(1, TRUE, PunctText),
      RowNoLink,
      RowLink123,
      RowLink456,
      PrimaryRow("UCLA", 5, "Interview on 5 Feb", None, FALSE),
      PrimaryRow("Yale", 5, "ACCEPTED ON 3 MAR", Some(""), FALSE),
      PrimaryRow("Duke", 4, "Rejected on 2 Apr, Accepted elsewhere", None, FALSE),
      PrimaryRow("Rice", 4, "Pending", None, TRUE) }

MaxRows == 3

RECURSIVE SeqsUpTo(_, _)
\* the sequences over S of length at most n
SeqsUpTo(S, n) ==
    IF n = 0 THEN {<<>>}
    ELSE LET shorter == SeqsUpTo(S, n - 1)
         IN  shorter \cup {Append(q, x) : q \in {r \in shorter : Len(r) = n - 1}, x \in S}

\* what the result page of link 123 answers: notes, a failed fetch, notes of
\* punctuation only, notes longer than 500 characters, an empty notes value
ResultPageChoices ==
    { NotesPage(RichText), ErrorPage, NotesPage("!!!"), NotesPage(LongNotes), NotesPage("  ") }

ListingUrl1 == PageUrl(DEFAULT_BASE, 1)

(***************************************************************************)
(* module_5/src/app.py: the insert loop of /pull-data with the helpers of  *)
(* load_data.py it calls.  The store is the applicants table, a list of   *)
(* rows; of a row the key and the four numeric columns are kept (the text *)
(* columns play no part in the loop).                                     *)
(***************************************************************************)
DigitString == "0123456789"

DigitVal(c) == (CHOOSE k \in 1..Len(DigitString) : Char(DigitString, k) = c) - 1

RECURSIVE IntFrom(_, _, _)
\* acc: the value of the digits before position k
IntFrom(s, k, acc) ==
    IF k > Len(s) THEN acc ELSE IntFrom(s, k + 1, acc * Len(DigitString) + DigitVal(Char(s, k)))

\* int(s) of a string of digits
ParseInt(s) == IntFrom(s, 1, 0)

PIdRe == << <<Lit("/result/"), Cls("d", 1, -1)>> >>

NoId == [some |-> FALSE, n |-> 0]

\* int(match.group(1)) if match else None
PIdOfMatch(url, m) ==
    IF m.start = 0 THEN NoId ELSE [some |-> TRUE, n |-> ParseInt(GroupOf(url, m, 2, 2))]

\* an extraction that also takes the digits after "="
ExtractPIdAnyNumber(url) ==
    IF ~Truthy(url) THEN NoId
    ELSE PIdOfMatch(url.v, Search(<< <<Lit("/result/"), Cls("d", 1, -1)>>,
                                     <<Lit("="), Cls("d", 1, -1)>> >>, url.v, 1, FALSE))

\* load_data.extract_p_id_from_url
ExtractPIdFromUrl(url) ==
    IF ~Truthy(url) THEN NoId ELSE PIdOfMatch(url.v, Search(PIdRe, url.v, 1, FALSE))

\* app.py line 256: "if not p_id" (None and 0 alike)
NoPId(p_id) == ~p_id.some \/ p_id.n = 0

\* does float(s) return: s made of digits and dots as the scraper's [\d\.]+
\* groups are, with one dot at most and a digit at least
FloatParses(s) ==
    /\ \A j \in 1..Len(s) : Char(s, j) \in Digits \/ Char(s, j) = "."
    /\ Cardinality({j \in 1..Len(s) : Char(s, j) = "."}) <= 1
    /\ \E j \in 1..Len(s) : Char(s, j) \in Digits

\* the value of the numeral with its dot at position d, in thousandths
MilliAt(s, d) ==
    ParseInt(SubSeq(s, 1, d - 1)) * 1000
        + ParseInt(Prefix(SubSeq(s, d + 1, Len(s)) \o "000", 3))

\* float(s), in thousandths
FloatOf(s) == MilliAt(s, FirstOr({j \in 1..Len(s) : Char(s, j) = "."}, Len(s) + 1))

Null == [null |-> TRUE, milli |-> 0]

\* lines 270-273: float(x) if x else None
Coerce(x) == IF Truthy(x) THEN [null |-> FALSE, milli |-> FloatOf(x.v)] ELSE Null

\* lines 270-273: one of the four float() calls raises ValueError
CoercionRaises(entry) ==
    \E x \in {entry.gpa, entry.gre_score, entry.gre_v, entry.gre_aw} :
        Truthy(x) /\ ~FloatParses(x.v)

\* lines 261-277: the row of an entry
RecordOf(entry) ==
    [p_id |-> ExtractPIdFromUrl(entry.url).n,
     gpa |-> Coerce(entry.gpa), gre |-> Coerce(entry.gre_score),
     gre_v |-> Coerce(entry.gre_v), gre_aw |-> Coerce(entry.gre_aw)]

\* an INSERT without its ON CONFLICT clause
InsertAlways(table, record) == Append(table, record)

\* lines 281-289: INSERT ... ON CONFLICT (p_id) DO NOTHING
InsertOrSkip(table, record) ==
    IF \E k \in 1..Len(table) : table[k].p_id = record.p_id THEN table
    ELSE Append(table, record)

VARIABLES
    store,         \* the applicants table
    scraped_data,  \* the entries of the scraper's output file
    pull_pc,       \* "idle", "loop" (inside the for loop of lines 252-301)
    entry_idx,     \* the position of the for loop in scraped_data
    inserted,      \* the inserted counter
    skipped,       \* the skipped counter
    file_json,     \* the kind of JSON value the file holds: "list", "dict", "str",
                   \* "number", "null"; scraped_data is what iterating it gives
    reports        \* one record per /pull-data request: the JSON answer, with
                   \* the table size before and after and whether an INSERT raised

pullVars == <<store, scraped_data, pull_pc, entry_idx, inserted, skipped, file_json, reports>>

MaxPulls == 2

\* the report of the request being served, changed by f
Reported(f) == [reports EXCEPT ![Len(reports)] = f]

\* line 238: "not scraped_data" of what json.load returned: an empty list,
\* dict or string, or null (a number of the file is taken as non-zero)
FalsyJson(json, items) ==
    \/ json = "null"
    \/ json \in {"list", "dict", "str"} /\ items = <<>>

\* clean.py lines 167-171: load_data raises ValueError unless the file holds
\* a list
LoadData(json, items) ==
    IF json = "list" THEN [raised |-> "", data |-> items]
    ELSE [raised |-> "ValueError", data |-> <<>>]

\* lines 196-250: the request passes the busy check, the scraper has written
\* scraped_data, and the loop starts
PullStart ==
    /\ pull_pc = "idle" /\ Len(reports) < MaxPulls
    /\ ~FalsyJson(file_json, scraped_data) /\ file_json # "number"
    /\ pull_pc' = "loop"
    /\ entry_idx' = 1
    /\ inserted' = 0
    /\ skipped' = 0
    /\ reports' = Append(reports, [status |-> "running", inserted |-> 0, skipped |-> 0,
                                   rows_before |-> Len(store), rows_after |-> Len(store),
                                   insert_raised |-> FALSE])
    /\ UNCHANGED <<store, scraped_data, file_json>>

\* lines 238-243: the scraper found nothing, the request answers 'warning'
PullNothingNew ==
    /\ pull_pc = "idle" /\ Len(reports) < MaxPulls
    /\ FalsyJson(file_json, scraped_data)
    /\ reports' = Append(reports, [status |-> "warning", inserted |-> 0, skipped |-> 0,
                                   rows_before |-> Len(store), rows_after |-> Len(store),
                                   insert_raised |-> FALSE])
    /\ UNCHANGED <<store, scraped_data, pull_pc, entry_idx, inserted, skipped, file_json>>

\* lines 252, 333-338: the file holds a number, "for entry in scraped_data"
\* raises TypeError outside the try of the loop, and the request answers
\* 'error'
PullNotIterable ==
    /\ pull_pc = "idle" /\ Len(reports) < MaxPulls
    /\ file_json = "number"
    /\ reports' = Append(reports, [status |-> "error", inserted |-> 0, skipped |-> 0,
                                   rows_before |-> Len(store), rows_after |-> Len(store),
                                   insert_raised |-> FALSE])
    /\ UNCHANGED <<store, scraped_data, pull_pc, entry_idx, inserted, skipped, file_json>>

InLoop == pull_pc = "loop" /\ entry_idx <= Len(scraped_data)

\* the element the loop is at is a dict
AtEntry == InLoop /\ scraped_data[entry_idx].is_dict

\* lines 255, 298-301: the element is no dict (a key of a dict, a character
\* of a string, a number of a list): entry.get raises AttributeError and the
\* element counts as skipped
PullNotAnEntry ==
    /\ InLoop /\ ~scraped_data[entry_idx].is_dict
    /\ skipped' = skipped + 1
    /\ entry_idx' = entry_idx + 1
    /\ UNCHANGED <<store, scraped_data, pull_pc, inserted, file_json, reports>>

\* lines 255-258: no p_id in the url of the entry
PullSkipNoId ==
    /\ AtEntry
    /\ NoPId(ExtractPIdFromUrl(scraped_data[entry_idx].url))
    /\ skipped' = skipped + 1
    /\ entry_idx' = entry_idx + 1
    /\ UNCHANGED <<store, scraped_data, pull_pc, inserted, reports, file_json>>

\* lines 270-273, 298-301: a float() raises, the entry counts as skipped
PullCoerceRaises ==
    /\ AtEntry
    /\ ~NoPId(ExtractPIdFromUrl(scraped_data[entry_idx].url))
    /\ CoercionRaises(scraped_data[entry_idx])
    /\ skipped' = skipped + 1
    /\ entry_idx' = entry_idx + 1
    /\ UNCHANGED <<store, scraped_data, pull_pc, inserted, reports, file_json>>

\* the entry reaches the INSERT
AtInsert ==
    /\ AtEntry
    /\ ~NoPId(ExtractPIdFromUrl(scraped_data[entry_idx].url))
    /\ ~CoercionRaises(scraped_data[entry_idx])

\* lines 291-294: rowcount > 0 counts as inserted, else as skipped
Counted(table) ==
    /\ store' = table
    /\ inserted' = IF Len(table) > Len(store) THEN inserted + 1 ELSE inserted

SkippedAfter(table, extra) ==
    skipped' = (IF Len(table) > Len(store) THEN skipped ELSE skipped + 1) + extra

\* lines 280-296: the INSERT runs and the cursor closes
PullInsert ==
    /\ AtInsert
    /\ Counted(InsertOrSkip(store, RecordOf(scraped_data[entry_idx])))
    /\ SkippedAfter(InsertOrSkip(store, RecordOf(scraped_data[entry_idx])), 0)
    /\ entry_idx' = entry_idx + 1
    /\ UNCHANGED <<scraped_data, pull_pc, reports, file_json>>

\* lines 289, 298-301: cursor.execute raises, the entry counts as skipped
PullInsertRaises ==
    /\ AtInsert
    /\ skipped' = skipped + 1
    /\ entry_idx' = entry_idx + 1
    /\ reports' = Reported([reports[Len(reports)] EXCEPT !.insert_raised = TRUE])
    /\ UNCHANGED <<store, scraped_data, pull_pc, inserted, file_json>>

\* lines 289-301: the INSERT runs and is counted, then cursor.close raises and
\* the handler counts the entry as skipped
PullCloseRaises ==
    /\ AtInsert
    /\ Counted(InsertOrSkip(store, RecordOf(scraped_data[entry_idx])))
    /\ SkippedAfter(InsertOrSkip(store, RecordOf(scraped_data[entry_idx])), 1)
    /\ entry_idx' = entry_idx + 1
    /\ UNCHANGED <<scraped_data, pull_pc, reports, file_json>>

\* lines 303-320: commit, and the 'success' answer with the two counters
PullRespond ==
    /\ pull_pc = "loop" /\ entry_idx > Len(scraped_data)
    /\ pull_pc' = "idle"
    /\ reports' = Reported([reports[Len(reports)] EXCEPT
                               !.status = "success", !.inserted = inserted,
                               !.skipped = skipped, !.rows_after = Len(store)])
    /\ UNCHANGED <<store, scraped_data, entry_idx, inserted, skipped, file_json>>

\* the entries of a scraper output file
FileEntry(url, gpa, gre_score) ==
    [is_dict |-> TRUE, url |-> url, gpa |-> gpa, gre_score |-> gre_score,
     gre_v |-> None, gre_aw |-> None]

\* an element that is no dict
NotADict == [FileEntry(None, None, None) EXCEPT !.is_dict = FALSE]

Entry123 == FileEntry(Some(DetailUrl123), Some("3.8"), Some("325"))

Entry456 == FileEntry(Some(DetailUrl456), None, None)

\* a second entry of post 123, under the /survey/result/ address
Entry123Again == FileEntry(Some("https://www.thegradcafe.com/survey/result/123"), Some("3.80"), None)

\* an entry that kept the URL of its listing page
EntryListingUrl == FileEntry(Some(ListingUrl1), Some("4."), None)

\* an entry that kept the URL of listing page 2
EntryListingPage2 == FileEntry(Some(PageUrl(DEFAULT_BASE, 2)), Some("3.5"), None)

EntryNoUrl == FileEntry(None, None, None)

EntryZero == FileEntry(Some("https://www.thegradcafe.com/result/0"), None, None)

\* a GPA badge the [\d\.]+ group reads as "3.8.1"
EntryBadGpa == FileEntry(Some("https://www.thegradcafe.com/result/789"), Some("3.8.1"), None)

FileChoices ==
    { <<>>,
      <<Entry123>>,
      <<Entry123, Entry456>>,
      <<Entry123, EntryListingUrl, Entry123Again>>,
      <<EntryListingPage2, EntryListingUrl>>,
      <<EntryZero, EntryBadGpa, Entry456>>,
      <<EntryNoUrl, Entry456, Entry123>> }

\* what the scraper output file can hold
JsonFiles ==
    {[json |-> "list", items |-> f] : f \in FileChoices}
        \cup { [json |-> "list", items |-> <<NotADict, Entry123>>],
               [json |-> "dict", items |-> <<NotADict, NotADict>>],
               [json |-> "dict", items |-> <<>>],
               [json |-> "str", items |-> <<NotADict>>],
               [json |-> "number", items |-> <<>>],
               [json |-> "null", items |-> <<>>] }

\* the tables a first request can meet: empty, or holding post 456 already
StoreChoices == { <<>>, <<RecordOf(Entry456)>> }

IdlePull ==
    /\ store = <<>>
    /\ scraped_data = <<>>
    /\ pull_pc = "idle"
    /\ entry_idx = 1
    /\ inserted = 0
    /\ skipped = 0
    /\ file_json = "list"
    /\ reports = <<>>

(***************************************************************************)
(* module_5/src/app.py: the busy flag of the dashboard.  Every request is  *)
(* a thread of the server; what a thread does with _busy_lock held is one  *)
(* step.                                                                   *)
(***************************************************************************)
VARIABLES
    is_busy,   \* the module global _is_busy
    requests   \* per request: the route, the place of its thread, whether its
               \* subprocess was started, how it left the guarded section,
               \* and its answer

busyVars == <<is_busy, requests>>

MaxRequests == 3

Routes == {"pull-data", "update-analysis"}

\* the ways out of the guarded section: a return, or the exception raised
PullExits == {"scrape_failed", "no_file", "empty", "success",
              "TimeoutExpired", "RuntimeError", "Exception"}

UpdateExits == {"failed", "success", "TimeoutExpired", "RuntimeError", "Exception"}

ExitsOf(route) == IF route = "pull-data" THEN PullExits ELSE UpdateExits

NoAnswer == [code |-> 0, status |-> ""]

Answer(code, status) == [code |-> code, status |-> status]

\* a handler whose "except RuntimeError" clause is missing: the error falls
\* to "except Exception"
AnswerOfNoBusyClause(exit) ==
    IF exit \in {"is_busy", "success"} THEN
        IF exit = "is_busy" THEN Answer(409, "busy") ELSE Answer(200, "success")
    ELSE IF exit = "empty" THEN Answer(200, "warning")
    ELSE Answer(500, "error")

\* lines 196-200, 217-243, 314-338 (363-417 for /update-analysis): the answer
\* of a request by the way it ended; "is_busy" is the pre-check that found
\* the flag set, "busy_state" the RuntimeError of the acquisition
AnswerOf(exit) ==
    IF exit \in {"is_busy", "busy_state", "RuntimeError"} THEN Answer(409, "busy")
    ELSE IF exit = "success" THEN Answer(200, "success")
    ELSE IF exit = "empty" THEN Answer(200, "warning")
    ELSE Answer(500, "error")

\* busy_state without its "if _is_busy: raise"
MayAcquireAlways(flag) == TRUE

\* lines 96-99: the acquisition goes through when the flag is not set
MayAcquire(flag) == ~flag

\* a release written after the yield with no try/finally: skipped when the
\* body raises
FlagAfterNoFinally(exit) == exit \in {"TimeoutExpired", "RuntimeError", "Exception"}

\* lines 101-106: the finally clause clears the flag however the body ended
FlagAfter(exit) == FALSE

At(r, place) == requests[r].at = place

Moved(r, f) == requests' = [requests EXCEPT ![r] = f]

Answered(r, exit) ==
    Moved(r, [requests[r] EXCEPT !.at = "answered", !.exit = exit, !.answer = AnswerOf(exit)])

\* the requests are numbered in the order of their is_busy() calls
NextToCheck(r) == At(r, "arrived") /\ (IF r = 1 THEN TRUE ELSE ~At(r - 1, "arrived"))

\* lines 196-200: is_busy() finds the flag set, the request answers 409
PreCheckBusy(r) ==
    /\ NextToCheck(r) /\ is_busy
    /\ Answered(r, "is_busy")
    /\ UNCHANGED is_busy

\* line 196: is_busy() finds the flag clear
PreCheckFree(r) ==
    /\ NextToCheck(r) /\ ~is_busy
    /\ Moved(r, [requests[r] EXCEPT !.at = "checked"])
    /\ UNCHANGED is_busy

\* lines 96-98, 327-332: busy_state() raises RuntimeError, answered 409
AcquireRejected(r) ==
    /\ At(r, "checked") /\ ~MayAcquire(is_busy)
    /\ Answered(r, "busy_state")
    /\ UNCHANGED is_busy

\* lines 96-99: busy_state() sets the flag
Acquire(r) ==
    /\ At(r, "checked") /\ MayAcquire(is_busy)
    /\ is_busy' = TRUE
    /\ Moved(r, [requests[r] EXCEPT !.at = "inside"])

\* lines 207-215 (379-385): subprocess.run starts the scraper (the
\* standardization script)
RunSubprocess(r) ==
    /\ At(r, "inside")
    /\ Moved(r, [requests[r] EXCEPT !.at = "running", !.started = TRUE])
    /\ UNCHANGED is_busy

\* the body of the with statement ends by a return or by a raise, and the
\* generator of busy_state resumes
Leave(r, exit) ==
    /\ At(r, "running")
    /\ exit \in ExitsOf(requests[r].route)
    /\ is_busy' = FlagAfter(exit)
    /\ Moved(r, [requests[r] EXCEPT !.at = "left", !.exit = exit])

\* lines 217-243 (387-391): an early return
LeaveEarly(r) == \E exit \in {"scrape_failed", "no_file", "empty", "failed"} : Leave(r, exit)

\* lines 314-320 (395-399)
LeaveSuccess(r) == Leave(r, "success")

\* lines 322-326 (401-405): subprocess.run raises TimeoutExpired
LeaveTimeout(r) == Leave(r, "TimeoutExpired")

\* lines 327-338 (406-417): any other exception of the body
LeaveRaised(r) == \E exit \in {"RuntimeError", "Exception"} : Leave(r, exit)

\* the response goes out
Respond(r) ==
    /\ At(r, "left")
    /\ Answered(r, requests[r].exit)
    /\ UNCHANGED is_busy

NewRequest(route) ==
    [route |-> route, at |-> "arrived", started |-> FALSE, exit |-> "", answer |-> NoAnswer]

IdleBusy ==
    /\ is_busy = FALSE
    /\ requests = <<>>

(***************************************************************************)
(* module_5/src/clean.py: standardization of a batch by the LLM service    *)
(***************************************************************************)
\* an entry as the cleaning stage hands it over
PlainEntry(university, program_name) ==
    [university |-> university, program_name |-> program_name, augmented |-> FALSE,
     llm_university |-> "", llm_program |-> ""]

\* the entry with the two llm-generated fields the service adds
Augmented(entry, llm_university, llm_program) ==
    [entry EXCEPT !.augmented = TRUE, !.llm_university = llm_university,
                  !.llm_program = llm_program]

\* what _http.request does: raise, or answer with a status and a body; the
\* body is JSON text of a list, JSON text of another value, or no JSON
Raised == [raised |-> TRUE, status |-> 0, json |-> "none", items |-> <<>>]

Response(status, json, items) ==
    [raised |-> FALSE, status |-> status, json |-> json, items |-> items]

\* _standardize_university_with_llm without its status test
StandardizeAnyStatus(entry, resp) ==
    IF ~resp.raised /\ resp.json = "list" /\ Len(resp.items) > 0 THEN resp.items[1]
    ELSE entry

\* lines 232-252: _standardize_university_with_llm
StandardizeUniversityWithLlm(entry, resp) ==
    IF resp.raised THEN entry                                  \* except Exception
    ELSE IF resp.status # HttpOk THEN entry                    \* the else of line 247
    ELSE IF resp.json = "invalid" THEN entry                   \* json.loads raises
    ELSE IF resp.json = "list" /\ Len(resp.items) > 0 THEN resp.items[1]
    ELSE entry

VARIABLES
    llm_data,     \* the batch handed to _standardize_with_llm
    llm_flush,    \* its output_path and flush_every arguments
    llm_results,  \* the results list
    llm_pc,       \* "loop", "done" (returned), "raised" (save_data raised)
    llm_calls,    \* the answer of the service to each call so far
    llm_saved     \* the list last written to output_path

llmVars == <<llm_data, llm_flush, llm_results, llm_pc, llm_calls, llm_saved>>

MaxBatch == 3

\* line 284: the flush is due after the call for entry number n
FlushDue(n) == llm_flush.path /\ n % llm_flush.every = 0

InLlmLoop == llm_pc = "loop" /\ Len(llm_results) < Len(llm_data)

\* the answers the service can give to the call for an entry
ResponseChoices(entry) ==
    { Raised,
      Response(500, "list", <<Augmented(entry, "Wrong U", "Wrong P")>>),
      Response(503, "none", <<>>),
      Response(HttpOk, "invalid", <<>>),
      Response(HttpOk, "dict", <<>>),
      Response(HttpOk, "list", <<>>),
      Response(HttpOk, "list", <<Augmented(entry, "Std U", "Std P")>>) }

\* lines 278-282: one iteration, no flush due
Standardized(resp) ==
    /\ llm_results' = Append(llm_results,
                             StandardizeUniversityWithLlm(llm_data[Len(llm_results) + 1], resp))
    /\ llm_calls' = Append(llm_calls, resp)

StandardizeEntry ==
    /\ InLlmLoop /\ ~FlushDue(Len(llm_results) + 1)
    /\ \E resp \in ResponseChoices(llm_data[Len(llm_results) + 1]) : Standardized(resp)
    /\ UNCHANGED <<llm_data, llm_flush, llm_pc, llm_saved>>

\* lines 278-286: one iteration, the results so far are written out
StandardizeAndFlush ==
    /\ InLlmLoop /\ FlushDue(Len(llm_results) + 1)
    /\ \E resp \in ResponseChoices(llm_data[Len(llm_results) + 1]) : Standardized(resp)
    /\ llm_saved' = llm_results'
    /\ UNCHANGED <<llm_data, llm_flush, llm_pc>>

\* lines 284-285: save_data raises (the path cannot be written), and the
\* exception leaves _standardize_with_llm
StandardizeFlushRaises ==
    /\ InLlmLoop /\ FlushDue(Len(llm_results) + 1)
    /\ \E resp \in ResponseChoices(llm_data[Len(llm_results) + 1]) : Standardized(resp)
    /\ llm_pc' = "raised"
    /\ UNCHANGED <<llm_data, llm_flush, llm_saved>>

\* lines 287-288: return results
StandardizeReturn ==
    /\ llm_pc = "loop" /\ Len(llm_results) = Len(llm_data)
    /\ llm_pc' = "done"
    /\ UNCHANGED <<llm_data, llm_flush, llm_results, llm_calls, llm_saved>>

EntryChoices == {PlainEntry("MIT", "CS"), PlainEntry("Stanford", "EE")}

FlushChoices ==
    {[path |-> FALSE, every |-> 100], [path |-> TRUE, every |-> 100], [path |-> TRUE, every |-> 2]}

IdleLlm ==
    /\ llm_data = <<>>
    /\ llm_flush = [path |-> FALSE, every |-> 100]
    /\ llm_results = <<>>
    /\ llm_pc = "done"
    /\ llm_calls = <<>>
    /\ llm_saved = <<>>

(***************************************************************************)
(* _fetch_url step by step, under its callers: scrape_data for the listing *)
(* pages (module_2: the base page first) and _extract_entries_from_page    *)
(* for the detail pages.  None of the three functions has a try statement: *)
(* an exception of _http.request climbs the call stack frame by frame.     *)
(***************************************************************************)
VARIABLES
    fetch_module,  \* "module_4" or "module_2": whose scrape_data runs
    call_stack,    \* the frames of the run, scrape_data first
    fetch_step,    \* inside _fetch_url: "request", "sleep", "check"; else "none"
    http_resp,     \* the answer of _http.request in the current call
    fetch_log,     \* the GETs and pauses of the run, with the time of each
    clock,         \* time, in tenths of a second
    run_state,     \* "running", "raising" (an exception climbs), "raised", "returned"
    run_entries,   \* the length of results
    fetch_result   \* what _fetch_url handed to its caller: "html", "None"; "none"
                   \* when the caller has taken it

fetchVars == <<fetch_module, call_stack, fetch_step, http_resp, fetch_log, clock,
               run_state, run_entries, fetch_result>>

MaxFetches == 3

\* the sleep default of _fetch_url, in tenths of a second: 0.1 s in module_4
SleepTenthsModule4 == 1

\* 1.0 s in module_2
SleepTenthsModule2 == 10

SleepOf(module) == IF module = "module_4" THEN SleepTenthsModule4 ELSE SleepTenthsModule2

NoResponse == [raised |-> FALSE, status |-> 0]

Top(stack) == IF stack = <<>> THEN "" ELSE stack[Len(stack)]

Pop(stack) == SubSeq(stack, 1, Len(stack) - 1)

GetsOf(log) == {k \in 1..Len(log) : log[k].kind = "GET"}

\* a _fetch_url that pauses after a good answer only
PausesOnSuccess(answer) == answer.status = HttpOk

\* module_4 line 87, module_2 line 31: time.sleep(sleep), whatever the answer
Pauses(answer) == TRUE

InFetch(step) == run_state = "running" /\ Top(call_stack) = "_fetch_url" /\ fetch_step = step

AtCaller(frame) ==
    run_state = "running" /\ Top(call_stack) = frame /\ fetch_result = "none"

EnterFetch ==
    /\ Cardinality(GetsOf(fetch_log)) < MaxFetches
    /\ call_stack' = Append(call_stack, "_fetch_url")
    /\ fetch_step' = "request"
    /\ UNCHANGED <<fetch_module, http_resp, fetch_log, clock, run_state, run_entries, fetch_result>>

\* module_4 line 311, module_2 lines 229 and 245: scrape_data calls _fetch_url
DriverFetches == AtCaller("scrape_data") /\ EnterFetch

\* module_4 line 251 (through _extract_comments_from_result_page): the parser
\* calls _fetch_url for a detail page
ParserFetches == AtCaller("_extract_entries_from_page") /\ EnterFetch

GetEvent(answer) == [kind |-> "GET", at |-> clock, raised |-> answer.raised, status |-> answer.status]

\* line 86: _http.request answers with a status
HttpAnswers ==
    /\ InFetch("request")
    /\ \E status \in {HttpOk, 404, 500} :
          /\ http_resp' = [raised |-> FALSE, status |-> status]
          /\ fetch_log' = Append(fetch_log, GetEvent(http_resp'))
    /\ fetch_step' = "sleep"
    /\ UNCHANGED <<fetch_module, call_stack, clock, run_state, run_entries, fetch_result>>

\* line 86: _http.request raises (connection refused, name not resolved,
\* retries exhausted): the exception leaves _fetch_url
HttpRaises ==
    /\ InFetch("request")
    /\ http_resp' = [raised |-> TRUE, status |-> 0]
    /\ fetch_log' = Append(fetch_log, GetEvent(http_resp'))
    /\ call_stack' = Pop(call_stack)
    /\ fetch_step' = "none"
    /\ run_state' = "raising"
    /\ UNCHANGED <<fetch_module, clock, run_entries, fetch_result>>

\* the exception leaves _extract_entries_from_page
RaiseLeavesParser ==
    /\ run_state = "raising" /\ Top(call_stack) = "_extract_entries_from_page"
    /\ call_stack' = Pop(call_stack)
    /\ UNCHANGED <<fetch_module, fetch_step, http_resp, fetch_log, clock, run_state,
                   run_entries, fetch_result>>

\* the exception leaves scrape_data: the run ends with a raised error
RaiseLeavesScrapeData ==
    /\ run_state = "raising" /\ Top(call_stack) = "scrape_data"
    /\ call_stack' = Pop(call_stack)
    /\ run_state' = "raised"
    /\ UNCHANGED <<fetch_module, fetch_step, http_resp, fetch_log, clock, run_entries,
                   fetch_result>>

\* line 87: time.sleep(sleep)
FetchSleeps ==
    /\ InFetch("sleep")
    /\ IF Pauses(http_resp)
       THEN /\ clock' = clock + SleepOf(fetch_module)
            /\ fetch_log' = Append(fetch_log, [kind |-> "pause", at |-> clock',
                                               raised |-> FALSE, status |-> 0])
       ELSE UNCHANGED <<clock, fetch_log>>
    /\ fetch_step' = "check"
    /\ UNCHANGED <<fetch_module, call_stack, http_resp, run_state, run_entries, fetch_result>>

\* lines 88-91: None on a status other than 200, else the decoded body
FetchReturns ==
    /\ InFetch("check")
    /\ fetch_result' = IF http_resp.status # HttpOk THEN "None" ELSE "html"
    /\ call_stack' = Pop(call_stack)
    /\ fetch_step' = "none"
    /\ http_resp' = NoResponse
    /\ UNCHANGED <<fetch_module, fetch_log, clock, run_state, run_entries>>

\* the fetch that just returned was the first of the run (in module_2, the
\* fetch of the base page)
FirstFetch == Cardinality(GetsOf(fetch_log)) = 1

TakenBy(frame) ==
    /\ run_state = "running" /\ Top(call_stack) = frame /\ fetch_result # "none"
    /\ fetch_result' = "none"

\* module_4 lines 312-314: break, and return results; module_2 lines 230-231:
\* return []
DriverStopsOnNone ==
    /\ TakenBy("scrape_data") /\ fetch_result = "None"
    /\ fetch_module = "module_4" \/ FirstFetch
    /\ run_state' = "returned"
    /\ UNCHANGED <<fetch_module, call_stack, fetch_step, http_resp, fetch_log, clock, run_entries>>

\* module_2 lines 246-247: continue
DriverContinuesOnNone ==
    /\ TakenBy("scrape_data") /\ fetch_result = "None"
    /\ fetch_module = "module_2" /\ ~FirstFetch
    /\ UNCHANGED <<fetch_module, call_stack, fetch_step, http_resp, fetch_log, clock,
                   run_state, run_entries>>

\* module_2 line 233: the base page goes to _find_post_links
DriverFindsLinks ==
    /\ TakenBy("scrape_data") /\ fetch_result = "html"
    /\ fetch_module = "module_2" /\ FirstFetch
    /\ UNCHANGED <<fetch_module, call_stack, fetch_step, http_resp, fetch_log, clock,
                   run_state, run_entries>>

\* module_4 line 316, module_2 line 249: the page goes to the parser
DriverParses ==
    /\ TakenBy("scrape_data") /\ fetch_result = "html"
    /\ ~(fetch_module = "module_2" /\ FirstFetch)
    /\ call_stack' = Append(call_stack, "_extract_entries_from_page")
    /\ UNCHANGED <<fetch_module, fetch_step, http_resp, fetch_log, clock, run_state, run_entries>>

\* module_4 lines 251-253: the parser takes the detail page, or the None
ParserTakesDetail ==
    /\ TakenBy("_extract_entries_from_page")
    /\ UNCHANGED <<fetch_module, call_stack, fetch_step, http_resp, fetch_log, clock,
                   run_state, run_entries>>

\* module_4 lines 274, 316-328: the parser returns its entries; module_4 stops
\* on none, otherwise results grows
ParserReturns ==
    /\ AtCaller("_extract_entries_from_page")
    /\ call_stack' = Pop(call_stack)
    /\ \E found \in 0..1 :
          /\ run_entries' = run_entries + found
          /\ run_state' = IF found = 0 /\ fetch_module = "module_4" THEN "returned" ELSE "running"
    /\ UNCHANGED <<fetch_module, fetch_step, http_resp, fetch_log, clock, fetch_result>>

\* module_4 lines 302, 331, module_2 lines 239-241, 258: the loop ends (the
\* limit is reached, or the links are used up) and results is returned
DriverReturns ==
    /\ AtCaller("scrape_data")
    /\ fetch_module = "module_2" => fetch_log # <<>>
    /\ run_state' = "returned"
    /\ UNCHANGED <<fetch_module, call_stack, fetch_step, http_resp, fetch_log, clock,
                   run_entries, fetch_result>>

IdleFetch ==
    /\ fetch_module = "none"
    /\ call_stack = <<>>
    /\ fetch_step = "none"
    /\ http_resp = NoResponse
    /\ fetch_log = <<>>
    /\ clock = 0
    /\ run_state = "returned"
    /\ run_entries = 0
    /\ fetch_result = "none"

(***************************************************************************)
(* _clean_comment_text statement by statement                              *)
(***************************************************************************)
VARIABLES
    comment_text,     \* the argument
    comment_cleaned,  \* the local "cleaned"
    pattern_idx,      \* the position of the for loop in the pattern list
    comment_pc,       \* "start", "patterns", "gate", "done"
    comment_out       \* the returned value

commentVars == <<comment_text, comment_cleaned, pattern_idx, comment_pc, comment_out>>

\* lines 130-131: no text, no comment
CleanNoText ==
    /\ comment_pc = "start" /\ comment_text = ""
    /\ comment_pc' = "done"
    /\ comment_out' = None
    /\ UNCHANGED <<comment_text, comment_cleaned, pattern_idx>>

\* line 132
CleanStripHtml ==
    /\ comment_pc = "start" /\ comment_text # ""
    /\ comment_cleaned' = StripHtml(comment_text)
    /\ comment_pc' = "patterns"
    /\ UNCHANGED <<comment_text, pattern_idx, comment_out>>

\* lines 133-145: one re.sub of the loop
CleanSubPattern ==
    /\ comment_pc = "patterns" /\ pattern_idx <= Len(BadgePatterns)
    /\ comment_cleaned' = ReSub(BadgePatterns[pattern_idx], comment_cleaned, TRUE)
    /\ pattern_idx' = pattern_idx + 1
    /\ UNCHANGED <<comment_text, comment_pc, comment_out>>

\* line 147
CleanCollapse ==
    /\ comment_pc = "patterns" /\ pattern_idx > Len(BadgePatterns)
    /\ comment_cleaned' = Collapse(comment_cleaned)
    /\ comment_pc' = "gate"
    /\ UNCHANGED <<comment_text, pattern_idx, comment_out>>

\* lines 148-150
CleanReturn ==
    /\ comment_pc = "gate"
    /\ comment_out' = GatedComment(comment_cleaned)
    /\ comment_pc' = "done"
    /\ UNCHANGED <<comment_text, comment_cleaned, pattern_idx>>

\* the texts before the remark: nothing, badges, badges in other case and
\* with wide blanks
LeadChoices == {"", "Fall 2026 ", "gpa 3.8   INTERNATIONAL  ", "GRE AW 4.5 "}

\* the remarks: none, short, of 15 and of 16 characters, punctuation only,
\* a sentence, 600 letters and a sentence, 167 words that collapse to
\* 500 characters, and 130 words with a blank as the 500th character
RemarkChoices ==
    {"", "Short", "exactly15chars!", "exactly 16 chars", "... ,,, !!! ??? ;;; :::",
     "Great visit   day, funding offer came a week later",
     Rep("A", 600) \o " This is a great program!", Rep("ab ", 167), Rep("abc ", 130)}

\* the texts after the remark: nothing, or the badges of
\* test_clean_comment_with_badges
TailChoices == {"", " Fall 2026 International GPA 3.8 GRE 325"}

CommentTexts ==
    {lead \o remark \o tail : lead \in LeadChoices, remark \in RemarkChoices, tail \in TailChoices}

IdleComment ==
    /\ comment_text = ""
    /\ comment_cleaned = ""
    /\ pattern_idx = 1
    /\ comment_pc = "done"
    /\ comment_out = None

(***************************************************************************)
(* clean.py run as a script with --standardize                             *)
(***************************************************************************)
VARIABLES
    main_input,     \* cleaned: the entries of the input file after clean_data
    main_existing,  \* the output file before the run: whether it exists, and
                    \* the entries it holds
    main_pc,        \* "start", "standardize", "saved"
    main_output     \* the entries the run saved to the output file

mainVars == <<main_input, main_existing, main_pc, main_output>>

\* line 315: 'llm-generated-university' in e
HasLlmField(e) == e.augmented

\* line 315: len([e for e in existing if 'llm-generated-university' in e])
ExistingCount(existing) ==
    Cardinality({k \in 1..Len(existing) : HasLlmField(existing[k])})

\* lines 313-318: the list handed to _standardize_with_llm on a resumed run
ResumeList(existing, cleaned) ==
    IF ExistingCount(existing) > 0
    THEN existing \o SubSeq(cleaned, ExistingCount(existing) + 1, Len(cleaned))
    ELSE cleaned

\* line 319: _standardize_with_llm(cleaned, args.api, output_path=args.output,
\* flush_every=100) is entered
EnterStandardize(batch) ==
    /\ llm_data' = batch
    /\ llm_flush' = [path |-> TRUE, every |-> 100]
    /\ llm_results' = <<>>
    /\ llm_pc' = "loop"
    /\ llm_calls' = <<>>
    /\ llm_saved' = main_existing.items
    /\ main_pc' = "standardize"
    /\ UNCHANGED <<main_input, main_existing, main_output>>

\* lines 308-311, 319: no output file yet
MainFresh ==
    /\ main_pc = "start" /\ ~main_existing.exists
    /\ EnterStandardize(main_input)

\* lines 311-319: the output file exists, the run resumes from it
MainResume ==
    /\ main_pc = "start" /\ main_existing.exists
    /\ EnterStandardize(ResumeList(main_existing.items, main_input))

\* lines 321-322: save_data(cleaned, args.output)
MainSave ==
    /\ main_pc = "standardize" /\ llm_pc = "done"
    /\ main_output' = llm_results
    /\ llm_saved' = llm_results
    /\ main_pc' = "saved"
    /\ UNCHANGED <<main_input, main_existing, llm_data, llm_flush, llm_results, llm_pc, llm_calls>>

MaxResume == 2

\* the k-th entry of the input file
InputEntry(k) == PlainEntry("University " \o ToString(k), "CS")

\* the input files: the first n entries
InputChoices == {[k \in 1..n |-> InputEntry(k)] : n \in 0..MaxResume}

\* what an earlier run over the input left in the output file: for a prefix
\* of the input, each entry with the llm-generated fields or, its service
\* call having failed, as it was
EarlierOutputs(cleaned) ==
    UNION {[1..n -> BOOLEAN] : n \in 0..Len(cleaned)}

EarlierOutput(cleaned, done) ==
    [k \in DOMAIN done |-> IF done[k] THEN Augmented(cleaned[k], "Std U", "Std P") ELSE cleaned[k]]

ExistingChoices(cleaned) ==
    {[exists |-> FALSE, items |-> <<>>]}
        \cup {[exists |-> TRUE, items |-> EarlierOutput(cleaned, done)] : done \in EarlierOutputs(cleaned)}

IdleMain ==
    /\ main_input = <<>>
    /\ main_existing = [exists |-> FALSE, items |-> <<>>]
    /\ main_pc = "saved"
    /\ main_output = <<>>

IdleParser ==
    /\ rows = <<>>
    /\ source_url = ""
    /\ i = 1
    /\ entries = <<>>
    /\ fetched = <<>>

IdleScraper ==
    /\ mode = "none"
    /\ limit = 0
    /\ pc = "done"
    /\ page_num = 1
    /\ links = <<>>
    /\ link_idx = 1
    /\ results = <<>>
    /\ pages_processed = 0
    /\ gets = <<>>

\* what the steps of one component leave alone
besideScraper == <<parseVars, pullVars, busyVars, llmVars, fetchVars, commentVars, mainVars>>

besideParser == <<scrapeVars, pullVars, busyVars, llmVars, fetchVars, commentVars, mainVars>>

besidePull == <<scrapeVars, parseVars, busyVars, llmVars, fetchVars, commentVars, mainVars>>

besideBusy == <<scrapeVars, parseVars, pullVars, llmVars, fetchVars, commentVars, mainVars>>

besideLlm == <<scrapeVars, parseVars, pullVars, busyVars, fetchVars, commentVars, mainVars>>

besideFetch == <<scrapeVars, parseVars, pullVars, busyVars, llmVars, commentVars, mainVars>>

besideComment == <<scrapeVars, parseVars, pullVars, busyVars, llmVars, fetchVars, mainVars>>

besideMain == <<scrapeVars, parseVars, pullVars, busyVars, fetchVars, commentVars>>

vars == <<web, mode, limit, pc, page_num, links, link_idx, results, pages_processed, gets,
          rows, source_url, i, entries, fetched,
          store, scraped_data, pull_pc, entry_idx, inserted, skipped, file_json, reports,
          is_busy, requests,
          llm_data, llm_flush, llm_results, llm_pc, llm_calls, llm_saved,
          fetch_module, call_stack, fetch_step, http_resp, fetch_log, clock, run_state,
          run_entries, fetch_result,
          comment_text, comment_cleaned, pattern_idx, comment_pc, comment_out,
          main_input, main_existing, main_pc, main_output>>

Init ==
    /\ web \in {Site(idx, listing) : idx \in IndexChoices, listing \in [1..MaxPages -> ListingChoices]}
    /\ mode \in {"pages", "links"}
    /\ limit \in 0..MaxLimit
    /\ pc = IF mode = "pages" THEN "loop" ELSE "start"
    /\ page_num = 1
    /\ links = <<>>
    /\ link_idx = 1
    /\ results = <<>>
    /\ pages_processed = 0
    /\ gets = <<>>
    /\ IdleParser
    /\ IdlePull
    /\ IdleBusy
    /\ IdleLlm
    /\ IdleFetch
    /\ IdleComment
    /\ IdleMain

Next ==
    \/ PagesReturn /\ UNCHANGED besideScraper
    \/ PagesFetchFail /\ UNCHANGED besideScraper
    \/ PagesEmpty /\ UNCHANGED besideScraper
    \/ PagesAppend /\ UNCHANGED besideScraper
    \/ LinksIndexFail /\ UNCHANGED besideScraper
    \/ LinksDiscover /\ UNCHANGED besideScraper
    \/ LinksReturn /\ UNCHANGED besideScraper
    \/ LinksSkipFailed /\ UNCHANGED besideScraper
    \/ LinksAppend /\ UNCHANGED besideScraper

Spec == Init /\ [][Next]_vars

\* what every step of scrape_data does to its position: it takes a pass of
\* the loop (pages_processed += 1) or leaves it; before the return one of the
\* steps of Next can always be taken
Runs ==
    /\ pc # "done"
    /\ pc' \in {"start", "loop", "done"}
    /\ pages_processed' \in {pages_processed, pages_processed + 1}
    /\ pc' # pc \/ pages_processed' # pages_processed

position == <<pc, pages_processed>>

\* the interpreter keeps executing scrape_data until it has returned
SpecLive == Spec /\ WF_position(Runs)

\* a table, and what the one result page answers when the table links to it
InitParse ==
    /\ rows \in {<<HeaderRow>> \o q : q \in SeqsUpTo(RowKinds, MaxRows)}
    /\ web \in {[u \in {DetailUrl123} |-> pg] :
                  pg \in IF \E k \in 1..Len(rows) : rows[k] = RowLink123
                         THEN ResultPageChoices ELSE {NotesPage(RichText)}}
    /\ source_url = ListingUrl1
    /\ i = 1
    /\ entries = <<>>
    /\ fetched = <<>>
    /\ IdleScraper
    /\ IdlePull
    /\ IdleBusy
    /\ IdleLlm
    /\ IdleFetch
    /\ IdleComment
    /\ IdleMain

NextParse ==
    \/ ParseSkipRow /\ UNCHANGED besideParser
    \/ ParseRowPair /\ UNCHANGED besideParser
    \/ ParseRowAlone /\ UNCHANGED besideParser

SpecParse == InitParse /\ [][NextParse]_vars

\* what every iteration of the while loop does to the row index; while
\* i < len(rows) one of the steps of NextParse can always be taken
ParserAdvances == i < Len(rows) /\ i' \in {i + 1, i + 2}

\* the interpreter keeps executing the while loop until its condition fails
SpecParseLive == SpecParse /\ WF_i(ParserAdvances)

\* /pull-data requests, one after the other, each served with the same scraper
\* output
InitPull ==
    /\ store \in StoreChoices
    /\ \E f \in JsonFiles : file_json = f.json /\ scraped_data = f.items
    /\ pull_pc = "idle"
    /\ entry_idx = 1
    /\ inserted = 0
    /\ skipped = 0
    /\ reports = <<>>
    /\ web = <<>>
    /\ IdleScraper
    /\ IdleParser
    /\ IdleBusy
    /\ IdleLlm
    /\ IdleFetch
    /\ IdleComment
    /\ IdleMain

NextPull ==
    \/ PullStart /\ UNCHANGED besidePull
    \/ PullNothingNew /\ UNCHANGED besidePull
    \/ PullNotIterable /\ UNCHANGED besidePull
    \/ PullNotAnEntry /\ UNCHANGED besidePull
    \/ PullSkipNoId /\ UNCHANGED besidePull
    \/ PullCoerceRaises /\ UNCHANGED besidePull
    \/ PullInsert /\ UNCHANGED besidePull
    \/ PullInsertRaises /\ UNCHANGED besidePull
    \/ PullCloseRaises /\ UNCHANGED besidePull
    \/ PullRespond /\ UNCHANGED besidePull

SpecPull == InitPull /\ [][NextPull]_vars

\* requests of either route, their threads interleaved
InitBusy ==
    /\ is_busy = FALSE
    /\ requests \in {[r \in 1..MaxRequests |-> NewRequest(route[r])] :
                       route \in [1..MaxRequests -> Routes]}
    /\ web = <<>>
    /\ IdleScraper
    /\ IdleParser
    /\ IdlePull
    /\ IdleLlm
    /\ IdleFetch
    /\ IdleComment
    /\ IdleMain

NextBusy ==
    \/ \E r \in 1..MaxRequests : PreCheckBusy(r) /\ UNCHANGED besideBusy
    \/ \E r \in 1..MaxRequests : PreCheckFree(r) /\ UNCHANGED besideBusy
    \/ \E r \in 1..MaxRequests : AcquireRejected(r) /\ UNCHANGED besideBusy
    \/ \E r \in 1..MaxRequests : Acquire(r) /\ UNCHANGED besideBusy
    \/ \E r \in 1..MaxRequests : RunSubprocess(r) /\ UNCHANGED besideBusy
    \/ \E r \in 1..MaxRequests : LeaveEarly(r) /\ UNCHANGED besideBusy
    \/ \E r \in 1..MaxRequests : LeaveSuccess(r) /\ UNCHANGED besideBusy
    \/ \E r \in 1..MaxRequests : LeaveTimeout(r) /\ UNCHANGED besideBusy
    \/ \E r \in 1..MaxRequests : LeaveRaised(r) /\ UNCHANGED besideBusy
    \/ \E r \in 1..MaxRequests : Respond(r) /\ UNCHANGED besideBusy

SpecBusy == InitBusy /\ [][NextBusy]_vars

\* one call of _standardize_with_llm
InitLlm ==
    /\ llm_data \in SeqsUpTo(EntryChoices, MaxBatch)
    /\ llm_flush \in FlushChoices
    /\ llm_results = <<>>
    /\ llm_pc = "loop"
    /\ llm_calls = <<>>
    /\ llm_saved = <<>>
    /\ web = <<>>
    /\ IdleScraper
    /\ IdleParser
    /\ IdlePull
    /\ IdleBusy
    /\ IdleFetch
    /\ IdleComment
    /\ IdleMain

NextLlm ==
    \/ StandardizeEntry /\ UNCHANGED besideLlm
    \/ StandardizeAndFlush /\ UNCHANGED besideLlm
    \/ StandardizeFlushRaises /\ UNCHANGED besideLlm
    \/ StandardizeReturn /\ UNCHANGED besideLlm

SpecLlm == InitLlm /\ [][NextLlm]_vars

\* one run of scrape_data, of either module
InitFetch ==
    /\ fetch_module \in {"module_4", "module_2"}
    /\ call_stack = <<"scrape_data">>
    /\ fetch_step = "none"
    /\ http_resp = NoResponse
    /\ fetch_log = <<>>
    /\ clock = 0
    /\ run_state = "running"
    /\ run_entries = 0
    /\ fetch_result = "none"
    /\ web = <<>>
    /\ IdleScraper
    /\ IdleParser
    /\ IdlePull
    /\ IdleBusy
    /\ IdleLlm
    /\ IdleComment
    /\ IdleMain

NextFetch ==
    \/ DriverFetches /\ UNCHANGED besideFetch
    \/ ParserFetches /\ UNCHANGED besideFetch
    \/ HttpAnswers /\ UNCHANGED besideFetch
    \/ HttpRaises /\ UNCHANGED besideFetch
    \/ RaiseLeavesParser /\ UNCHANGED besideFetch
    \/ RaiseLeavesScrapeData /\ UNCHANGED besideFetch
    \/ FetchSleeps /\ UNCHANGED besideFetch
    \/ FetchReturns /\ UNCHANGED besideFetch
    \/ DriverStopsOnNone /\ UNCHANGED besideFetch
    \/ DriverContinuesOnNone /\ UNCHANGED besideFetch
    \/ DriverFindsLinks /\ UNCHANGED besideFetch
    \/ DriverParses /\ UNCHANGED besideFetch
    \/ ParserTakesDetail /\ UNCHANGED besideFetch
    \/ ParserReturns /\ UNCHANGED besideFetch
    \/ DriverReturns /\ UNCHANGED besideFetch

SpecFetch == InitFetch /\ [][NextFetch]_vars

\* one call of _clean_comment_text
InitComment ==
    /\ comment_text \in CommentTexts
    /\ comment_cleaned = ""
    /\ pattern_idx = 1
    /\ comment_pc = "start"
    /\ comment_out = None
    /\ web = <<>>
    /\ IdleScraper
    /\ IdleParser
    /\ IdlePull
    /\ IdleBusy
    /\ IdleLlm
    /\ IdleFetch
    /\ IdleMain

NextComment ==
    \/ CleanNoText /\ UNCHANGED besideComment
    \/ CleanStripHtml /\ UNCHANGED besideComment
    \/ CleanSubPattern /\ UNCHANGED besideComment
    \/ CleanCollapse /\ UNCHANGED besideComment
    \/ CleanReturn /\ UNCHANGED besideComment

SpecComment == InitComment /\ [][NextComment]_vars

\* one run of clean.py --standardize over an input file, with or without an
\* output file of an earlier run; the lists stay shorter than flush_every
InitMain ==
    /\ main_input \in InputChoices
    /\ main_existing \in ExistingChoices(main_input)
    /\ main_pc = "start"
    /\ main_output = <<>>
    /\ IdleLlm
    /\ web = <<>>
    /\ IdleScraper
    /\ IdleParser
    /\ IdlePull
    /\ IdleBusy
    /\ IdleFetch
    /\ IdleComment

NextMain ==
    \/ MainFresh /\ UNCHANGED besideMain
    \/ MainResume /\ UNCHANGED besideMain
    \/ StandardizeEntry /\ UNCHANGED besideLlm
    \/ StandardizeReturn /\ UNCHANGED besideLlm
    \/ MainSave /\ UNCHANGED besideMain

SpecMain == InitMain /\ [][NextMain]_vars


(***************************************************************************)
(* Properties of the pagination driver                                    *)
(***************************************************************************)
\* the entries a fetch of url and the parse of its page give, <<>> when the
\* fetch fails
EntriesIfOk(w, url, f) ==
    IF f.ok THEN ExtractEntriesFromPage(w, f.page, url).entries ELSE <<>>

PageEntries(w, url) == EntriesIfOk(w, url, FetchUrl(w, url))

\* the links of the base page, none when its fetch fails
LinksIfOk(f) == IF f.ok THEN FindPostLinks(f.page, DEFAULT_BASE) ELSE <<>>

\* the listing URLs of the run in visiting order (page MaxPages + 1 is the
\* first page number the site does not serve)
ListingUrls ==
    IF mode = "pages" THEN [k \in 1..(MaxPages + 1) |-> PageUrl(DEFAULT_BASE, k)]
    ELSE IF mode = "links" THEN LinksIfOk(FetchUrl(web, DEFAULT_BASE))
    ELSE <<>>

RECURSIVE SourceYield(_, _, _)
\* n entries on page k: they count, and so do the later pages, unless n = 0
YieldFrom(w, urls, k, n) == IF n = 0 THEN 0 ELSE n + SourceYield(w, urls, k + 1)

\* the number of entries of pages urls[k..] up to the first page that fails
\* to load or holds no entry
SourceYield(w, urls, k) ==
    IF k > Len(urls) THEN 0 ELSE YieldFrom(w, urls, k, Len(PageEntries(w, urls[k])))

\* C1: scrape_data never returns more than limit entries, and returns exactly
\* limit entries when the source would yield more than limit entries before
\* its first failed or empty page.
C1_LimitTruncation ==
    /\ Len(results) <= limit
    /\ (pc = "done" /\ mode # "none" /\ SourceYield(web, ListingUrls, 1) > limit)
          => Len(results) = limit

\* a run that returned after taking one of the two entries of its first page
C1_Witness ==
    /\ pc = "done" /\ mode = "pages" /\ limit = 1
    /\ Len(results) = 1
    /\ Len(PageEntries(web, PageUrl(DEFAULT_BASE, 1))) = 2

\* the number of listing-page GETs in a log of GETs
ListingGets(g) == Cardinality({k \in 1..Len(g) : g[k].kind = "listing"})

\* the step fetches no listing page and leaves the accumulator as it is
DriverStopped == ListingGets(gets') = ListingGets(gets) /\ results' = results

FailedListingSeen == \E k \in 1..Len(gets) : gets[k].kind = "listing" /\ ~gets[k].ok

\* C2: in both modes, once the fetch of a listing page has failed the driver
\* fetches no further listing page and the accumulator stays as it was.
C2_StopsOnFailedFetch == [][FailedListingSeen => DriverStopped]_vars

EmptyListingSeen ==
    \E k \in 1..Len(gets) :
        gets[k].kind = "listing" /\ gets[k].ok /\ PageEntries(web, gets[k].url) = <<>>

\* C3: in both modes, once a fetched listing page has yielded zero entries the
\* driver fetches no further listing page and the accumulator stays as it was.
C3_StopsOnEmptyPage == [][EmptyListingSeen => DriverStopped]_vars

RECURSIVE VisitedEntries(_, _, _)
\* the entries of the listing pages fetched in g[k..], page after page
VisitedEntries(w, g, k) ==
    IF k > Len(g) THEN <<>>
    ELSE (IF g[k].kind = "listing" THEN PageEntries(w, g[k].url) ELSE <<>>)
             \o VisitedEntries(w, g, k + 1)

\* the first n elements of q, all of q when it is shorter
FirstN(q, n) == SubSeq(q, 1, IF Len(q) < n THEN Len(q) ELSE n)

\* C23: the accumulator, and so the returned list, is the entries of the
\* visited pages in visiting order and row order, cut at limit; a step only
\* appends to it and leaves the entries it holds as they are.
C23_AppendOnly ==
    /\ [](results = FirstN(VisitedEntries(web, gets, 1), limit))
    /\ [][Len(results') >= Len(results) /\ SubSeq(results', 1, Len(results)) = results]_vars

\* a returned run over two pages of two entries each, the second page cut
\* at limit
C23_Witness ==
    /\ pc = "done" /\ limit = 3 /\ Len(results) = 3
    /\ ListingGets(gets) = 2
    /\ Len(VisitedEntries(web, gets, 1)) = 4
    /\ results[1] # results[2]

IsListingGet(x) == x.kind = "listing"

\* the listing-page GETs of the run, in order
ListingLog == SelectSeq(gets, IsListingGet)

\* the address of page k of the survey
SurveyPage(k) ==
    IF k = 1 THEN "https://www.thegradcafe.com/survey/"
    ELSE "https://www.thegradcafe.com/survey/?page=" \o ToString(k)

\* the listing page fetched last answered and held an entry
LastPageGave(log) ==
    log # <<>> /\ log[Len(log)].ok /\ PageEntries(web, log[Len(log)].url) # <<>>

\* C24: in page-number mode the k-th listing fetch of a run asks for page k,
\* so no page is fetched twice and none is left out; the page number starts
\* at 1 and a step raises it by one, and only when the page it fetched
\* answered and held at least one entry.
C24_PagesInOrder ==
    /\ [](mode = "pages" =>
            /\ \A k \in 1..Len(ListingLog) : ListingLog[k].url = SurveyPage(k)
            /\ page_num >= 1)
    /\ [][mode = "pages" =>
            \/ page_num' = page_num
            \/ page_num' = page_num + 1 /\ LastPageGave(SelectSeq(gets', IsListingGet))]_vars

\* a run that fetched pages 1, 2 and 3 and stopped at page 3, which did not
\* answer
C24_Witness ==
    /\ mode = "pages" /\ pc = "done" /\ page_num = 3
    /\ Len(ListingLog) = 3
    /\ ListingLog[2].url = "https://www.thegradcafe.com/survey/?page=2"
    /\ ListingLog[2].ok /\ ~ListingLog[3].ok

\* the number of detail-page GETs in a log of GETs
DetailFetches(g) == Cardinality({k \in 1..Len(g) : g[k].kind = "detail"})

\* C30: a run fetches a detail page only for an entry it returns: the
\* detail-page fetches of a returned run are no more than its entries.
C30_NoFetchForDiscarded == pc = "done" => DetailFetches(gets) <= Len(results)

\* one pass of the while loop of the page-number driver
PagesIteration == mode = "pages" /\ pages_processed' = pages_processed + 1

\* C18: every run of scrape_data returns, whatever the pages answer; each
\* pass of the page-number loop either ends the run or adds at least one
\* entry, so a run in page-number mode fetches at most limit listing pages.
C18_Terminates ==
    /\ <>(pc = "done")
    /\ [][PagesIteration => (pc' = "done" \/ Len(results') > Len(results))]_vars
    /\ [](mode = "pages" => ListingGets(gets) <= limit /\ pages_processed <= limit)

\* a returned run of the page-number driver that took limit passes, each page
\* answering with entries
C18_Witness ==
    /\ pc = "done" /\ mode = "pages" /\ limit = MaxLimit
    /\ pages_processed = limit /\ ListingGets(gets) = limit
    /\ Len(results) = limit
    /\ \A k \in 1..Len(gets) : gets[k].ok

(***************************************************************************)
(* Properties of the entry parser                                         *)
(***************************************************************************)
\* the parser stands at a row of at least 4 cells
AtPrimaryRow == i < Len(rows) /\ rows[i + 1].ncells >= MinCells

\* the parser stands at a row of fewer than 4 cells
AtShortRow == i < Len(rows) /\ rows[i + 1].ncells < MinCells

\* the entry the step appended
NewEntry == entries'[Len(entries')]

\* the step appended one entry to the entries built before
OneEntryMore == Len(entries') = Len(entries) + 1 /\ SubSeq(entries', 1, Len(entries)) = entries

DetailPart(e) == <<e.start_term, e.citizenship, e.gpa, e.gre_score, e.gre_v, e.gre_aw>>

NoDetailPart == <<None, None, None, None, None, None>>

DetailPartOf(det) ==
    <<det.start_term, det.citizenship, det.gpa, det.gre_score, det.gre_v, det.gre_aw>>

\* what the detail page of entry e says, None when e has no detail page
DetailPageComment(e) ==
    IF e.url = source_url THEN None ELSE NotesOfPage(FetchUrl(web, e.url))

\* the comments of entry e do not come from a details row
NoFallbackComment(e) == e.comments = None \/ e.comments = DetailPageComment(e)

\* the step built an entry from rows[i + 1] and rows[i + 2] and passed both
PairedStep ==
    /\ i' = i + 2
    /\ OneEntryMore
    /\ NewEntry.university = rows[i + 1].university
    /\ NewEntry.date_posted = Some(rows[i + 1].date)
    /\ DetailPart(NewEntry) = DetailPartOf(DetailsOf(rows[i + 2].text))

\* the step built an entry from rows[i + 1] alone and passed that row only
AloneStep ==
    /\ i' = i + 1
    /\ OneEntryMore
    /\ NewEntry.university = rows[i + 1].university
    /\ DetailPart(NewEntry) = NoDetailPart
    /\ NoFallbackComment(NewEntry)

\* C4: a primary row followed by a row with a colspan cell consumes 2 rows and
\* gives 1 entry with the fields of both rows; a primary row followed by a row
\* without a colspan cell, or by no row, consumes 1 row and gives an entry
\* whose detail fields and fallback comments are absent.
C4_RowPairing ==
    [][AtPrimaryRow =>
          IF i + 1 < Len(rows) /\ rows[i + 2].colspan THEN PairedStep ELSE AloneStep]_vars

\* a table parsed to its end: the first entry from a row pair, the second from
\* a primary row alone
C4_Witness ==
    /\ Len(rows) = 4 /\ i = 4
    /\ rows[3].colspan /\ ~rows[4].colspan /\ rows[4].ncells >= MinCells
    /\ Len(entries) = 2
    /\ entries[1].gpa = Some("3.8") /\ entries[1].start_term = Some("Fall 2026")
    /\ entries[2].gpa = None /\ entries[2].university = rows[4].university

\* C5 as stated: a row of fewer than 4 cells never produces an entry, and one
\* that follows a primary row is never taken as that entry's details row.
C5_ShortRowNeverDetails ==
    [][/\ AtShortRow => entries' = entries
       /\ (AtPrimaryRow /\ i + 1 < Len(rows) /\ rows[i + 2].ncells < MinCells)
             => AloneStep]_vars

\* C5 amended: a row of fewer than 4 cells never produces an entry, and one
\* that follows a primary row is taken as that entry's details row only when
\* it holds a colspan cell.
C5_ShortRowSkipped ==
    [][/\ AtShortRow => (entries' = entries /\ i' = i + 1)
       /\ (AtPrimaryRow /\ i + 1 < Len(rows) /\ rows[i + 2].ncells < MinCells
             /\ ~rows[i + 2].colspan) => AloneStep]_vars

\* a primary row and the short row without colspan after it, both passed, with
\* the one entry of the primary row
C5_Witness ==
    /\ Len(rows) = 3 /\ i = 3
    /\ rows[2].ncells >= MinCells
    /\ rows[3].ncells < MinCells /\ ~rows[3].colspan
    /\ Len(entries) = 1
    /\ DetailPart(entries[1]) = NoDetailPart

\* the step passes rows[i + 1] as a row that is no data row
PassedAsShort == i' = i + 1 /\ entries' = entries

\* the step passes rows[i + 1] as row 1 of one new entry, alone or with
\* rows[i + 2] as the details row of that entry
PassedAsPrimary ==
    /\ OneEntryMore
    /\ NewEntry.university = rows[i + 1].university
    /\ \/ i' = i + 1
       \/ i' = i + 2 /\ i + 1 < Len(rows) /\ rows[i + 2].colspan

\* C22: the Entry Parser comes to its end on every row sequence: the row
\* index starts after the header, never passes the last row, each iteration
\* moves it on by 1 or 2, and the rows it passes are taken once: a row of
\* fewer than 4 cells is skipped, any other is row 1 of one new entry, and the
\* second row of a step by 2 is the details row of that entry.
C22_ParserTerminates ==
    /\ <>(i = Len(rows))
    /\ [](1 <= i /\ i <= Len(rows))
    /\ [][i' \in {i + 1, i + 2}
           /\ IF rows[i + 1].ncells < MinCells THEN PassedAsShort ELSE PassedAsPrimary]_vars

\* a table parsed to its end: a skipped row, then a primary row with its
\* details row, giving one entry
C22_Witness ==
    /\ Len(rows) = 4 /\ i = 4
    /\ rows[2].ncells < MinCells
    /\ rows[3].ncells >= MinCells /\ rows[4].colspan
    /\ Len(entries) = 1
    /\ entries[1].university = rows[3].university

\* C6: a populated comments value is non-empty, at most 500 characters long
\* and not made of punctuation and spaces only, whichever its source.
C6_CommentsGated ==
    \A k \in 1..Len(entries) :
        entries[k].comments.some =>
            /\ entries[k].comments.v # ""
            /\ Len(entries[k].comments.v) <= MaxCommentLen
            /\ ~AllPunct(entries[k].comments.v)

\* C7: no entry has both accepted_date and rejected_date populated.
C7_OneDecisionDate ==
    \A k \in 1..Len(entries) :
        ~(entries[k].accepted_date.some /\ entries[k].rejected_date.some)

\* an accepted entry and a rejected entry, each with its date
C7_Witness ==
    /\ \E k \in 1..Len(entries) :
          entries[k].accepted_date.some /\ entries[k].applicant_status.some
    /\ \E k \in 1..Len(entries) :
          entries[k].rejected_date = Some("10 Jan")

\* C8: when the details row gives a comment and the detail page gives one too,
\* the entry's comments are those of the detail page.
C8_DetailPageWins ==
    [][(/\ AtPrimaryRow
        /\ i + 1 < Len(rows) /\ rows[i + 2].colspan
        /\ Truthy(DetailsOf(rows[i + 2].text).comments)
        /\ Truthy(DetailPageComment(NewEntry)))
          => NewEntry.comments = DetailPageComment(NewEntry)]_vars

\* an entry whose details row holds a remark and whose detail page holds notes
C8_Witness ==
    /\ Len(rows) >= 3 /\ i >= 3
    /\ rows[2].href = Some("/result/123")
    /\ rows[3].colspan /\ rows[3].text = RemarkText
    /\ Truthy(CleanCommentText(RemarkText))
    /\ web[DetailUrl123] = NotesPage(RichText)
    /\ Len(entries) >= 1
    /\ entries[1].comments = Some(RichText)

\* the absolute URL of the links the rows are written with
AbsoluteLink(href) ==
    IF href = "/result/123" THEN DetailUrl123
    ELSE IF href = "" THEN source_url
    ELSE href

\* C9: the url of an entry is never empty: it is the absolute URL of the link
\* in the 5th cell of its primary row, and the listing URL when there is none.
C9_UrlNeverEmpty ==
    [][AtPrimaryRow =>
          /\ NewEntry.url # ""
          /\ NewEntry.url = IF rows[i + 1].ncells > MinCells /\ rows[i + 1].href.some
                            THEN AbsoluteLink(rows[i + 1].href.v)
                            ELSE source_url]_vars

\* an entry with the URL of its detail page and one with the listing URL
C9_Witness ==
    /\ \E k \in 1..Len(entries) : entries[k].url = DetailUrl123
    /\ \E k \in 1..Len(entries) : entries[k].url = source_url /\ source_url # ""

\* the status of entry e, in lower case; "" when absent
StatusWord(e) == IF e.applicant_status.some THEN Lower(e.applicant_status.v) ELSE ""

\* text holds a word of the status vocabulary, in whatever case
HasStatusWord(text) ==
    \E word \in {"accepted", "rejected", "interview", "waitlisted", "wait listed"} :
        Contains(Lower(text), word)

\* C26: accepted_date is populated only for the status Accepted and
\* rejected_date only for Rejected, in whatever case; for Interview and
\* Waitlisted both stay absent, with or without an "on <date>" clause; a
\* decision text without a word of the vocabulary leaves applicant_status and
\* both dates absent, and the entry is produced all the same.
C26_DecisionDates ==
    [][AtPrimaryRow =>
          /\ OneEntryMore
          /\ NewEntry.accepted_date.some => StatusWord(NewEntry) = "accepted"
          /\ NewEntry.rejected_date.some => StatusWord(NewEntry) = "rejected"
          /\ StatusWord(NewEntry) \in {"interview", "waitlisted", "wait listed"}
                => NewEntry.accepted_date = None /\ NewEntry.rejected_date = None
          /\ ~HasStatusWord(rows[i + 1].decision)
                => /\ NewEntry.applicant_status = None
                   /\ NewEntry.accepted_date = None /\ NewEntry.rejected_date = None]_vars

\* an entry whose decision word is not of the vocabulary, and an Interview
\* entry whose decision text has a date clause: neither has a decision date
C26_Witness ==
    /\ Len(rows) = 3 /\ i = 3 /\ Len(entries) = 2
    /\ rows[2].decision = "Pending"
    /\ entries[1].applicant_status = None
    /\ rows[3].decision = "Interview on 5 Feb"
    /\ entries[2].applicant_status = Some("Interview")
    /\ entries[2].accepted_date = None /\ entries[2].rejected_date = None

\* the primary row the parser stands at holds a link in its 5th cell
RowHasLink == rows[i + 1].ncells > MinCells /\ rows[i + 1].href.some

\* the comments the details row of the step gives, none without details row
FallbackComment ==
    IF i + 1 < Len(rows) /\ rows[i + 2].colspan
    THEN DetailsOf(rows[i + 2].text).comments ELSE None

\* C25, for fetches that fail with a status: a primary row with a link gives
\* one detail-page fetch, one without gives none; when the detail page does
\* not answer or holds no notes, the entry is produced with the detail-page
\* URL and the comments of its details row.
C25_StatusFailureKeepsEntry ==
    [][AtPrimaryRow =>
          /\ OneEntryMore
          /\ IF RowHasLink
             THEN /\ fetched' = Append(fetched, AbsoluteLink(rows[i + 1].href.v))
                  /\ NewEntry.url = AbsoluteLink(rows[i + 1].href.v)
                  /\ ~Truthy(NotesOfPage(FetchUrl(web, NewEntry.url)))
                        => NewEntry.comments = FallbackComment
             ELSE fetched' = fetched]_vars


(***************************************************************************)
(* Properties of the /pull-data insert loop                                *)
(***************************************************************************)
NoDuplicateIds ==
    \A a, b \in 1..Len(store) : store[a].p_id = store[b].p_id => a = b

\* request k answered 'success' and so did the request before it
SecondRun(k) ==
    /\ k > 1 /\ k <= Len(reports)
    /\ reports[k - 1].status = "success" /\ reports[k].status = "success"

\* the run left the row count as it was, reported inserted = 0 and counted
\* each of the n entries as skipped (a raising cursor.close counts its entry
\* a second time, so the counter may exceed n)
SkippedAll(report, n) ==
    /\ report.rows_after = report.rows_before
    /\ report.inserted = 0
    /\ report.skipped >= n

EntryHandled == pull_pc = "loop" /\ entry_idx' = entry_idx + 1

IsStored(table, p_id) == \E k \in 1..Len(table) : table[k].p_id = p_id.n

\* the entry is counted as skipped and the table is left alone
SkippedNow == store' = store /\ skipped' > skipped /\ inserted' = inserted

\* C14: an entry is skipped when its url gives no identifier or its
\* identifier is already stored; every other entry is persisted, its four
\* numeric fields coerced to numbers and its absent fields null.
C14_SkippedOrPersisted ==
    [][EntryHandled =>
          IF NoPId(ExtractPIdFromUrl(scraped_data[entry_idx].url))
                \/ IsStored(store, ExtractPIdFromUrl(scraped_data[entry_idx].url))
          THEN SkippedNow
          ELSE store' = Append(store, RecordOf(scraped_data[entry_idx]))]_vars

\* C17: JSON that is no list is an explicit failure of the loading stage:
\* clean.load_data raises ValueError for it, and /pull-data never answers
\* 'success' when the scraped file holds a value that is no list.
C17_NonListRejected ==
    /\ \A f \in JsonFiles : f.json # "list" => LoadData(f.json, f.items).raised = "ValueError"
    /\ \A k \in 1..Len(reports) : reports[k].status = "success" => file_json = "list"

\* C27: a /pull-data request that reaches the insert loop and answers
\* 'success' reports inserted + skipped equal to the number of entries of the
\* scraped file, also when an INSERT or a cursor.close raised.
C27_CountersAddUp ==
    \A k \in 1..Len(reports) :
        reports[k].status = "success"
            => reports[k].inserted + reports[k].skipped = Len(scraped_data)

\* url is the address of a listing page of the survey
ListingFallback(url) == url.some /\ url.v \in {SurveyPage(k) : k \in 1..MaxPages}

\* C29: an entry whose url is that of its listing page (/survey/ or
\* /survey/?page=N) yields no identifier; the loader counts it as skipped
\* and stores no row for it, on the first pull and on every later one.
C29_ListingUrlSkipped ==
    /\ [](\A k \in 1..MaxPages : NoPId(ExtractPIdFromUrl(Some(SurveyPage(k)))))
    /\ [][(AtEntry /\ ListingFallback(scraped_data[entry_idx].url))
            => /\ skipped' = skipped + 1
               /\ inserted' = inserted
               /\ store' = store]_vars

\* two pulls of a file of two entries, one with the URL of page 1 and one
\* with the URL of page 2: both skipped both times, no row stored
C29_Witness ==
    /\ Len(reports) = 2
    /\ scraped_data = <<EntryListingPage2, EntryListingUrl>>
    /\ \A k \in 1..2 : /\ reports[k].status = "success"
                        /\ reports[k].inserted = 0 /\ reports[k].skipped = 2
    /\ store = <<>>

(***************************************************************************)
(* Properties of the busy flag                                             *)
(***************************************************************************)
\* the thread of request r is inside the with busy_state() section
Inside(r) == requests[r].at \in {"inside", "running"}

InsideNext(r) == requests'[r].at \in {"inside", "running"}

Holders == {r \in 1..MaxRequests : Inside(r)}

\* request r was turned away in this step
RejectedNow(r) ==
    /\ requests[r].at # "answered" /\ requests'[r].at = "answered"
    /\ requests'[r].exit \in {"is_busy", "busy_state"}

\* C11: at most one request is inside the guarded section at a time, the
\* flag is set for as long as the holder is inside, and a request rejected
\* at the pre-check or at the acquisition leaves the flag as it is.
C11_OneHolder ==
    /\ [](Cardinality(Holders) <= 1 /\ (Holders # {} => is_busy))
    /\ [][\A r \in 1..MaxRequests : RejectedNow(r) => is_busy' = is_busy /\ is_busy]_vars

\* one request runs its subprocess, a second one passed the pre-check before
\* the first acquired and was rejected at the acquisition
C11_Witness ==
    \E a, b \in 1..MaxRequests :
        /\ requests[a].at = "running" /\ requests[a].route = "pull-data"
        /\ requests[b].at = "answered" /\ requests[b].exit = "busy_state"
        /\ requests[b].route = "update-analysis"
        /\ is_busy

\* request r takes a step in a state where the flag is set and r does not
\* hold it
FindsFlagSet(r) ==
    /\ requests[r].at \in {"arrived", "checked"} /\ is_busy
    /\ requests'[r] # requests[r]

TurnedAway(rq) ==
    /\ rq.at = "answered"
    /\ rq.answer = Answer(409, "busy")
    /\ ~rq.started

\* C12: a request that finds the flag set, at the is_busy() pre-check or at
\* the busy_state() acquisition, is answered in that very step with HTTP 409
\* and status 'busy', and its subprocess was never started.
C12_BusyAnswered409 ==
    [][\A r \in 1..MaxRequests : FindsFlagSet(r) => TurnedAway(requests'[r])]_vars

\* both rejections happened: one at the pre-check, one at the acquisition
C12_Witness ==
    \E a, b \in 1..MaxRequests :
        /\ requests[a].exit = "is_busy" /\ TurnedAway(requests[a])
        /\ requests[b].exit = "busy_state" /\ TurnedAway(requests[b])

\* request r passes the check it is at
Accepted(r) ==
    \/ requests[r].at = "arrived" /\ requests'[r].at = "checked"
    \/ requests[r].at = "checked" /\ requests'[r].at = "inside"

\* C13: whenever the holder leaves the guarded section, by whichever return
\* or exception, the flag is clear after that step and before the response;
\* with nobody inside the flag is clear, and a request that then takes its
\* check is accepted.
C13_ReleasedOnEveryExit ==
    /\ [](Holders = {} => ~is_busy)
    /\ [][\A r \in 1..MaxRequests :
            /\ (Inside(r) /\ ~InsideNext(r)) => ~is_busy'
            /\ (Holders = {} /\ requests[r].at \in {"arrived", "checked"}
                    /\ requests'[r] # requests[r]) => Accepted(r)]_vars

\* a request timed out, another one raised, and a third one arriving later is
\* inside the section
C13_Witness ==
    \E a, b, c \in 1..MaxRequests :
        /\ requests[a].at = "answered" /\ requests[a].exit = "TimeoutExpired"
        /\ requests[b].at = "answered" /\ requests[b].exit = "Exception"
        /\ Inside(c) /\ is_busy


(***************************************************************************)
(* Properties of the standardization                                       *)
(***************************************************************************)
\* the call failed: a transport error or a non-success response
CallFailed(resp) == resp.raised \/ resp.status # HttpOk

\* C15: an entry whose service call raised or answered a non-success status
\* comes back unchanged; the list _standardize_with_llm returns has the
\* length of its input, and its k-th element is the result for the k-th
\* entry.
C15_FailedCallKeepsEntry ==
    /\ Len(llm_results) = Len(llm_calls) /\ Len(llm_results) <= Len(llm_data)
    /\ \A k \in 1..Len(llm_results) :
          /\ CallFailed(llm_calls[k]) => llm_results[k] = llm_data[k]
          /\ llm_results[k].university = llm_data[k].university
          /\ llm_results[k].program_name = llm_data[k].program_name
    /\ llm_pc = "done" => Len(llm_results) = Len(llm_data)

\* a returned batch of three: a call that raised, a call answered 500 with a
\* list in its body, and a call that succeeded
C15_Witness ==
    /\ llm_pc = "done" /\ Len(llm_data) = 3 /\ Len(llm_results) = 3
    /\ llm_calls[1].raised /\ llm_results[1] = llm_data[1]
    /\ llm_calls[2].status = 500 /\ llm_calls[2].json = "list" /\ ~llm_results[2].augmented
    /\ llm_results[3].augmented
    /\ llm_data[1] # llm_data[2]


(***************************************************************************)
(* Properties of the Page Fetcher under its callers                        *)
(***************************************************************************)
\* the first fetch of the run failed: a status other than 200, or a raise
\* the step ends the call of _extract_entries_from_page
ParserLeft ==
    /\ call_stack # <<>> /\ Top(call_stack) = "_extract_entries_from_page"
    /\ Len(call_stack') < Len(call_stack)

\* C25: the parser's call ends by returning its entries, also when the fetch
\* of a detail page failed: the entry of the row is still produced.
C25_EntryDespiteFailedFetch ==
    [][ParserLeft => run_state' \in {"running", "returned"}]_vars

FirstFetchFailed ==
    fetch_log # <<>> /\ (fetch_log[1].raised \/ fetch_log[1].status # HttpOk)

\* C16: a failed fetch, be it a non-success status or a connection error
\* raised by the HTTP client, ends that fetch call only: no exception leaves
\* _fetch_url, the parser or scrape_data, and a run whose very first fetch
\* failed returns an empty list.
C16_NoExceptionEscapes ==
    /\ run_state \notin {"raising", "raised"}
    /\ (run_state = "returned" /\ FirstFetchFailed) => run_entries = 0

\* the k-th event of the log is a GET that a pause follows
PausedAfter(log, k) ==
    /\ k < Len(log)
    /\ log[k + 1].kind = "pause"
    /\ log[k + 1].at - log[k].at >= SleepOf(fetch_module)

\* C19: a _fetch_url call that reaches its return has issued one GET and
\* then paused for the delay, on a 200 and on any other status alike; between
\* any two GETs of a run a full pause has passed.
C19_PauseAfterEveryGet ==
    /\ \A j, k \in GetsOf(fetch_log) :
          j < k => /\ PausedAfter(fetch_log, j)
                   /\ fetch_log[k].at - fetch_log[j].at >= SleepOf(fetch_module)
    /\ fetch_step = "check" =>
          /\ Len(fetch_log) >= 2
          /\ fetch_log[Len(fetch_log) - 1].kind = "GET"
          /\ PausedAfter(fetch_log, Len(fetch_log) - 1)

\* a listing fetch answered 200, a detail fetch answered 404, and a third
\* call is about to return
C19_Witness ==
    /\ fetch_step = "check"
    /\ Cardinality(GetsOf(fetch_log)) = 3
    /\ fetch_log[1].status = HttpOk
    /\ fetch_log[3].kind = "GET" /\ fetch_log[3].status = 404
    /\ call_stack = <<"scrape_data", "_extract_entries_from_page", "_fetch_url">>

(***************************************************************************)
(* Properties of the Comment Extractor                                     *)
(***************************************************************************)
\* the badge-stripped, whitespace-collapsed text of an input
StrippedText(text) == Collapse(StripBadges(StripHtml(text), 1))

OnlyPunctuation(s) == \A j \in 1..Len(s) : Char(s, j) \in {".", ",", ";", ":", "!", "?", " "}

\* what the gate lets through of a stripped text
ExpectedComment(stripped) ==
    IF Len(stripped) <= 15 \/ OnlyPunctuation(stripped) THEN None
    ELSE Some(SubSeq(stripped, 1, IF Len(stripped) < 500 THEN Len(stripped) ELSE 500))

\* C20: when the badge-stripped, whitespace-collapsed text of the input has
\* at most 15 characters or holds only . , ; : ! ? and spaces, the Comment
\* Extractor returns no comment; for any other input it returns the first 500
\* characters of that text.
C20_CommentGate ==
    comment_pc = "done" => comment_out = ExpectedComment(StrippedText(comment_text))

\* a remark of exactly 15 characters after a badge: no comment
C20_Witness ==
    /\ comment_pc = "done"
    /\ comment_text = "Fall 2026 exactly15chars!"
    /\ comment_cleaned = "exactly15chars!"
    /\ comment_out = None

\* s starts t
IsPrefixOf(s, t) == Len(s) <= Len(t) /\ SubSeq(t, 1, Len(s)) = s

NoOuterBlank(s) == s # "" /\ Char(s, 1) # " " /\ Char(s, Len(s)) # " "

\* the returned comment holds free-form text only: it starts the remark the
\* input was made of
OnlyTheRemark(text, out) ==
    \A lead \in LeadChoices, remark \in RemarkChoices, tail \in TailChoices :
        text = lead \o remark \o tail => IsPrefixOf(out, Collapse(remark))

\* C21: for an input made of free-form text and badge tokens of the listed
\* shapes, a returned comment holds no residue of a badge token and neither
\* starts nor ends with whitespace.
C21_BadgesStripped ==
    (comment_pc = "done" /\ comment_out.some)
        => OnlyTheRemark(comment_text, comment_out.v) /\ NoOuterBlank(comment_out.v)


(***************************************************************************)
(* Properties of the resumed standardization                               *)
(***************************************************************************)
\* entry e is input entry x, with or without the llm-generated fields
SameRecord(e, x) == e.university = x.university /\ e.program_name = x.program_name

\* C28: a run of clean.py --standardize that resumes from an existing output
\* file saves each input entry once, in input order: the output is as long as
\* the input, also when entries of the existing output lack the
\* llm-generated-university field.
C28_ResumeKeepsRecords ==
    (main_pc = "saved" /\ main_existing.exists) =>
        /\ Len(main_output) = Len(main_input)
        /\ \A k \in 1..Len(main_output) : SameRecord(main_output[k], main_input[k])

====
